---- MODULE Spec2Model ----
(***************************************************************************)
(* A model of the ai-board application: the threaded-comment path          *)
(* allocator (views_posts.add_comment), the post filter builder            *)
(* (app_core.build_posts_filter_sql) and the three surfaces that consume   *)
(* it (views_posts.show_posts, views_api.export_posts_csv,                 *)
(* views_api.export_posts_json), the notification counters and watermarks  *)
(* (app_core.get_notify_counts_for_user, views_notify.notify_mark_read),   *)
(* favorites (views_posts.toggle_favorite), the writing handlers           *)
(* (views_posts.new_post, edit_post, delete_post, delete_comment,          *)
(* views_admin.moderate_post, moderate_comment, create_report), the image  *)
(* upload with its thumbnail job (app_core.                                *)
(* upload_original_and_enqueue_thumb, rq_generate_thumbnail), the          *)
(* surfaces that show single posts (views_posts.post_detail, user_profile, *)
(* my_favorites, export_post_pdf, views_api.api_posts, api_post_detail)    *)
(* and the handlers' use of their database connections.                    *)
(*                                                                         *)
(* Each group of handlers has a specification of its own over the one      *)
(* tuple of variables: SpecComments, SpecListing, SpecNotify, SpecToggle,  *)
(* SpecFavorites, SpecModerate, SpecDelete, SpecCards, SpecWrites,         *)
(* SpecConnections, SpecReports, SpecThread, SpecThumbs, SpecSurfaces,     *)
(* SpecMarkRead, SpecPages.                                                *)
(*                                                                         *)
(* Strings that the code compares or concatenates character by character   *)
(* (comment paths) are sequences of character codes, so that the string    *)
(* order of the database is computed and not assumed.                      *)
(***************************************************************************)
EXTENDS Integers, Sequences, FiniteSets, TLC

VARIABLES
    posts,        \* table posts: id -> row
    post_tags,    \* table post_tags: set of <<post_id, tag_id>>
    favorites,    \* table favorites: set of rows
    comments,     \* table comments: set of rows (the columns the path
                  \* allocator and the thread listing read or write)
    comment_seq,  \* last value handed out by the sequence comments_id_seq
    per_page,     \* app.config["PER_PAGE"]
    cdn_domain,   \* os.getenv("CDN_DOMAIN"), "" when unset
    req,          \* the query string and the caller of a listing/export request
    last,         \* the last request handled and its response
    now,          \* the clock that NOW() and datetime.utcnow() read
    user_reads,   \* table user_reads: user -> row of three watermarks
    conns,        \* requests in flight: the handler's position, what it
                  \* has read, and the uncommitted work of its connection
    jobs,         \* the thumbnail queue
    reports       \* table reports: its rows in the order of their ids

vars == <<posts, post_tags, favorites, comments, comment_seq, per_page,
          cdn_domain, req, last, now, user_reads, conns, jobs, reports>>

(***************************************************************************)
(* Bounds of the model.                                                    *)
(***************************************************************************)
MaxComments == 3      \* comment rows per run
SmallIds == 2         \* the sequence hands out 1..SmallIds, then jumps
NumPosts == 2         \* posts in the store
MaxTagTokens == 2     \* tokens in the tags parameter of a request
MaxPage == 2          \* largest page number requested
MaxPerPage == 2       \* largest configured page size tried
MaxTime == 3          \* writing requests of a notification run
NumRequests == 2      \* requests in flight at the same time
MaxWrites == 2        \* writing requests of a writing run
FirstPosts == 1       \* posts in the store when a writing run starts

(***************************************************************************)
(* Program constants.                                                      *)
(***************************************************************************)
PadWidth == 6         \* f"{cid:06d}"
DefaultPerPage == 8   \* os.getenv("PER_PAGE", 8)

NULLID == -1          \* SQL NULL / Python None in an integer column
NoUrl == [prefix |-> "", key |-> ""]
                      \* NULL or '' in a URL column: a URL is the prefix that
                      \* names its host ("s3", "cdn", "other") and a key
NULLSTR == <<>>       \* SQL NULL in comments.path (the code reads it through
                      \* "pr[1] or ..." and COALESCE(path,''), which both
                      \* identify NULL with the empty string)

PostIds == 1..NumPosts

Max(a, b) == IF a >= b THEN a ELSE b

RECURSIVE Pow10(_)
Pow10(n) == IF n = 0 THEN 1 ELSE 10 * Pow10(n - 1)

\* first id that no longer fits PadWidth digits
PadLimit == Pow10(PadWidth)

\* values the sequence can hand out: it only ever increases, and it skips
\* values (every failed INSERT consumes one), so ids of any magnitude occur
IdPool == (1..SmallIds) \cup {PadLimit - 1, PadLimit, PadLimit + 1}

(***************************************************************************)
(* Character strings.                                                      *)
(***************************************************************************)
SlashChar == 47       \* ord("/")
ZeroChar == 48        \* ord("0")

RECURSIVE Digits(_)
\* str(n) for n >= 0
Digits(n) == IF n < 10 THEN <<ZeroChar + n>>
             ELSE Append(Digits(n \div 10), ZeroChar + (n % 10))

RECURSIVE Zeros(_)
Zeros(k) == IF k <= 0 THEN <<>> ELSE <<ZeroChar>> \o Zeros(k - 1)

\* f"{n:06d}": at least PadWidth digits, more when n needs more
ZeroPad(n) == Zeros(PadWidth - Len(Digits(n))) \o Digits(n)

IsPrefix(a, b) == Len(a) <= Len(b) /\ SubSeq(b, 1, Len(a)) = a

\* a < b in the code-point order of strings
StrLess(a, b) ==
    \/ Len(a) < Len(b) /\ IsPrefix(a, b)
    \/ \E i \in 1..Len(a) :
          /\ i <= Len(b)
          /\ SubSeq(a, 1, i - 1) = SubSeq(b, 1, i - 1)
          /\ a[i] < b[i]

\* number of "/"-separated segments of a non-empty string
Segments(s) == 1 + Cardinality({i \in 1..Len(s) : s[i] = SlashChar})

(***************************************************************************)
(* Comments: views_posts.add_comment                                       *)
(***************************************************************************)
CommentById(cid) == {c \in comments : c.id = cid}

\* SELECT id, path, depth FROM comments WHERE id=%s AND post_id=%s
ParentRow(parent_id, post_id) ==
    {c \in comments : c.id = parent_id /\ c.post_id = post_id}

\* a depth that copies the parent's
NewDepthOfParent(pr) == IF pr = {} THEN 0 ELSE (CHOOSE c \in pr : TRUE).depth
\* depth of the new row: (pr[2] or 0) + 1, or 0
NewDepth(pr) == IF pr = {} THEN 0 ELSE (CHOOSE c \in pr : TRUE).depth + 1

\* path prefix of the new row: f"{parent_path}/" or None
NewPrefix(pr) ==
    IF pr = {} THEN NULLSTR
    ELSE LET p == CHOOSE c \in pr : TRUE
             parent_path == IF p.path # NULLSTR THEN p.path ELSE ZeroPad(p.id)
         IN  Append(parent_path, SlashChar)

\* new_path = f"{cid:06d}" if path is None else f"{path}{cid:06d}"
NewPath(prefix, cid) ==
    IF prefix = NULLSTR THEN ZeroPad(cid) ELSE prefix \o ZeroPad(cid)

\* the foreign keys of table comments, checked when the INSERT statement
\* ends: the post exists, and parent_id is NULL or the id of a row of the
\* table, the row just inserted included
CommentFKOk(post_id, parent_id, cid) ==
    /\ post_id \in DOMAIN posts
    /\ parent_id = NULLID \/ parent_id = cid \/ CommentById(parent_id) # {}

\* One POST /comment/<post_id> by a logged-in user.  parent_id is what
\* request.form.get("parent_id", type=int) returned (NULLID for None),
\* has_text says whether the sanitized text is non-empty, cid is the value
\* the sequence hands out to the INSERT.  A statement that raises leaves the
\* handler through "finally: conn.close()" without a commit, which rolls the
\* transaction back; the sequence keeps the value it handed out.
AddComment(user, post_id, parent_id, has_text, cid) ==
    /\ Cardinality(comments) < MaxComments
    /\ cid > comment_seq
    /\ IF ~has_text
       THEN /\ last' = [op |-> "add_comment", outcome |-> "empty"]
            /\ UNCHANGED <<comments, comment_seq>>
       ELSE LET pr == IF parent_id \notin {NULLID, 0}
                      THEN ParentRow(parent_id, post_id) ELSE {}
                depth == NewDepth(pr)
                path == NewPrefix(pr)
                row == [id |-> cid, post_id |-> post_id,
                        parent_id |-> parent_id, depth |-> depth,
                        path |-> NewPath(path, cid), status |-> "public",
                        author |-> user, created_at |-> now]
            IN  /\ comment_seq' = cid
                /\ IF CommentFKOk(post_id, parent_id, cid)
                   THEN /\ comments' = comments \cup {row}
                        /\ last' = [op |-> "add_comment", outcome |-> "posted",
                                    post_id |-> post_id,
                                    parent_id |-> parent_id,
                                    parent_found |-> (pr # {}), cid |-> cid]
                   ELSE /\ comments' = comments
                        /\ last' = [op |-> "add_comment", outcome |-> "error",
                                    post_id |-> post_id,
                                    parent_id |-> parent_id,
                                    parent_found |-> (pr # {}), cid |-> NULLID]
    /\ UNCHANGED <<posts, post_tags, favorites, per_page, cdn_domain, req, user_reads,
                   conns, jobs, reports>>

AddCommentStep ==
    /\ \E post_id \in 1..(NumPosts + 1),
          parent_id \in {NULLID, 0} \cup IdPool,
          has_text \in BOOLEAN, cid \in IdPool :
           AddComment("alice", post_id, parent_id, has_text, cid)
    /\ UNCHANGED now

\* SELECT ... FROM comments WHERE post_id=%s [AND status='public']
\*  ORDER BY COALESCE(path,''), created_at ASC
\* Rows are inserted one request after the other, so created_at ascends with
\* the id; it only decides between rows with equal paths.
CommentBefore(c, d) ==
    \/ StrLess(c.path, d.path)
    \/ c.path = d.path /\ c.id < d.id

RECURSIVE SortComments(_)
SortComments(S) ==
    IF S = {} THEN <<>>
    ELSE LET m == CHOOSE c \in S : \A d \in S \ {c} : CommentBefore(c, d)
         IN  <<m.id>> \o SortComments(S \ {m})

\* the comment ids post_detail lists for a post, in display order
CommentListing(post_id, is_mod) ==
    SortComments({c \in comments :
                    /\ c.post_id = post_id
                    /\ is_mod \/ c.status = "public"})

(***************************************************************************)
(* The reply tree of a post, as the rows record it.                        *)
(***************************************************************************)
\* the replies to comment m on m's own post
Replies(m) ==
    {c \in comments : c.post_id = m.post_id /\ c.parent_id = m.id /\ c.id # m.id}

\* the comments of a post that reply to no other comment of that post
ThreadRoots(post_id) ==
    {c \in comments :
        /\ c.post_id = post_id
        /\ ~\E p \in comments : p.post_id = post_id /\ p.id # c.id /\ c.parent_id = p.id}

RECURSIVE PreOrder(_)
\* pre-order traversal of the trees rooted in S, siblings in creation order
PreOrder(S) ==
    IF S = {} THEN <<>>
    ELSE LET m == CHOOSE c \in S : \A d \in S : c.id <= d.id
         IN  <<m.id>> \o PreOrder(Replies(m)) \o PreOrder(S \ {m})

RECURSIVE ChainLength(_, _)
\* number of rows met by following parent_id from c, at most fuel
ChainLength(c, fuel) ==
    IF fuel = 0 \/ c.parent_id = NULLID \/ CommentById(c.parent_id) = {} THEN 0
    ELSE 1 + ChainLength(CHOOSE p \in CommentById(c.parent_id) : TRUE, fuel - 1)

\* the number of ancestors of c (more than there are rows when the chain
\* never ends)
AncestorCount(c) == ChainLength(c, Cardinality(comments) + 1)

(***************************************************************************)
(* Claims about the comment thread.                                        *)
(***************************************************************************)
\* C1: after any sequence of add_comment calls, a comment c created as a
\* reply to an existing comment p of the same post has a path that begins
\* with path(p) followed by "/", and depth(c) = depth(p) + 1.
C1_ReplyExtendsParent ==
    \A c \in comments : \A p \in comments :
        (c.parent_id = p.id /\ p.post_id = c.post_id /\ p.id # c.id)
            => /\ IsPrefix(Append(p.path, SlashChar), c.path)
               /\ c.depth = p.depth + 1

\* a reply to a reply exists
C1_Witness ==
    \E c \in comments : \E p \in comments :
        /\ c.parent_id = p.id /\ p.post_id = c.post_id /\ p.id # c.id
        /\ p.depth = 1 /\ c.depth = 2

\* C2: for every post, the comments in ascending string order of path are
\* the pre-order traversal of the reply tree (each comment right before its
\* descendants, siblings in creation order), whatever the ids are.
C2_PathOrderIsPreOrder ==
    \A post_id \in PostIds :
        CommentListing(post_id, TRUE) = PreOrder(ThreadRoots(post_id))

\* C3: an add_comment whose parent_id identifies no comment of the same post
\* stores the new comment as a root: depth 0, path = its own padded id,
\* parent_id null.
C3_UnknownParentStoredAsRoot ==
    (/\ last.op = "add_comment"
     /\ last.outcome # "empty"
     /\ last.parent_id # NULLID
     /\ ~last.parent_found)
        => /\ last.outcome = "posted"
           /\ \E c \in CommentById(last.cid) :
                 c.depth = 0 /\ c.path = ZeroPad(c.id) /\ c.parent_id = NULLID

\* C4: every comment's depth is the number of its ancestors (the length of
\* its parent_id chain) and the number of segments of its path minus one.
C4_DepthIsAncestorsAndSegments ==
    \A c \in comments :
        /\ c.depth = AncestorCount(c)
        /\ c.depth = Segments(c.path) - 1


(***************************************************************************)
(* The post store read by the listing and the exports.                     *)
(***************************************************************************)
Genres == {"art", "code"}
Statuses == {"public", "hidden", "deleted"}
TagIds == {1, 2}

\* table tags: id -> name ("x", "y")
TagName == [t \in TagIds |-> <<119 + t>>]

\* the words of search_vec: to_tsvector('simple', genre || title || ...)
Doc(p) == {posts[p].genre} \cup posts[p].words

\* SELECT COUNT(*) FROM favorites WHERE post_id = p (the CTE fav)
FavCount(p) == Cardinality({f \in favorites : f.post_id = p})

TagsOf(p) == {t \in TagIds : <<p, t>> \in post_tags}

(***************************************************************************)
(* Request parsing: show_posts, export_posts_csv, export_posts_json        *)
(***************************************************************************)
IsDigitChar(ch) == ch >= ZeroChar /\ ch <= ZeroChar + 9

\* str.isdigit() on ASCII text
IsDigit(tok) == Len(tok) > 0 /\ \A i \in 1..Len(tok) : IsDigitChar(tok[i])

RECURSIVE ParseInt(_)
\* int(tok) for a token of digits
ParseInt(tok) ==
    IF Len(tok) = 0 THEN 0
    ELSE 10 * ParseInt(SubSeq(tok, 1, Len(tok) - 1)) + (tok[Len(tok)] - ZeroChar)

RECURSIVE DigitTokens(_)
\* the numeric tokens of tags_param.split(","), as integers, in order
DigitTokens(toks) ==
    IF toks = <<>> THEN <<>>
    ELSE IF IsDigit(Head(toks))
         THEN <<ParseInt(Head(toks))>> \o DigitTokens(Tail(toks))
         ELSE DigitTokens(Tail(toks))

\* show_posts: tags=... wins; else tag=<digits> or tag=<name> (looked up in
\* table tags)
ListingTagIds(r) ==
    IF r.tags_param # <<>> THEN DigitTokens(r.tags_param)
    ELSE IF r.tag_param # <<>>
         THEN IF IsDigit(r.tag_param) THEN <<ParseInt(r.tag_param)>>
              ELSE LET hit == {t \in TagIds : TagName[t] = r.tag_param}
                   IN  IF hit = {} THEN <<>> ELSE <<CHOOSE t \in hit : TRUE>>
         ELSE <<>>

\* the exports read tags=... only
ExportTagIds(r) == DigitTokens(r.tags_param)

\* current_user.is_authenticated and current_user.is_staff
IsMod(r) == r.role \in {"moderator", "admin"}

\* page = max(1, request.args.get("page", type=int, default=1))
PageOf(r) == Max(1, IF r.page.given THEN r.page.value ELSE 1)

(***************************************************************************)
(* app_core.build_posts_filter_sql                                         *)
(*                                                                         *)
(* The SQL text is the sequence of its predicates, each with the           *)
(* placeholders it contains; the parameters are typed values.              *)
(***************************************************************************)
TextArg(v) == [t |-> "text", v |-> v]
IntArg(v) == [t |-> "int", v |-> v]
IntsArg(v) == [t |-> "ints", v |-> v]

StatusClause(include_non_public) ==
    IF include_non_public THEN <<>> ELSE <<"status">>

\* a WHERE clause without the status predicate
FilterWhereAnyStatus(keyword, selected_genre, selected_tag_ids, include_non_public) ==
    (IF selected_genre # "" THEN <<"genre">> ELSE <<>>)
    \o (IF keyword # "" THEN <<"kw">> ELSE <<>>)
    \o (IF selected_tag_ids # <<>> THEN <<"tags">> ELSE <<>>)
\* the predicates of the WHERE clause, in clause order
FilterWhere(keyword, selected_genre, selected_tag_ids, include_non_public) ==
    StatusClause(include_non_public)
    \o (IF selected_genre # "" THEN <<"genre">> ELSE <<>>)
    \o (IF keyword # "" THEN <<"kw">> ELSE <<>>)
    \o (IF selected_tag_ids # <<>> THEN <<"tags">> ELSE <<>>)

\* the positional parameters of the WHERE clause
FilterParams(keyword, selected_genre, selected_tag_ids) ==
    (IF selected_genre # "" THEN <<TextArg(selected_genre)>> ELSE <<>>)
    \o (IF keyword # "" THEN <<TextArg(keyword)>> ELSE <<>>)
    \o (IF selected_tag_ids # <<>>
        THEN <<IntsArg(selected_tag_ids), IntArg(Len(selected_tag_ids))>>
        ELSE <<>>)

\* (where_sql, params, rank_sql); rank_sql is None without a keyword
BuildPostsFilterSql(keyword, selected_genre, selected_tag_ids, include_non_public) ==
    [where |-> FilterWhere(keyword, selected_genre, selected_tag_ids,
                           include_non_public),
     params |-> FilterParams(keyword, selected_genre, selected_tag_ids),
     rank_sql |-> (keyword # "")]

(***************************************************************************)
(* Query execution: cursor.execute(sql, params) against the store.         *)
(*                                                                         *)
(* A query is [select_rank, where, order_by, paged]: whether the select    *)
(* list holds the rank expression, the predicates of WHERE, the ORDER BY   *)
(* key ("" for none) and whether it ends with LIMIT %s OFFSET %s.          *)
(***************************************************************************)
ClauseSlots(clause) ==
    CASE clause = "genre" -> <<"genre">>
      [] clause = "kw" -> <<"kw">>
      [] clause = "tags" -> <<"tag_ids", "tag_count">>
      [] OTHER -> <<>>

RECURSIVE WhereSlots(_)
WhereSlots(where) ==
    IF where = <<>> THEN <<>>
    ELSE ClauseSlots(Head(where)) \o WhereSlots(Tail(where))

\* the %s placeholders of the statement, in text order: select list, WHERE,
\* LIMIT/OFFSET
Placeholders(q) ==
    (IF q.select_rank THEN <<"rank_kw">> ELSE <<>>)
    \o WhereSlots(q.where)
    \o (IF q.paged THEN <<"limit", "offset">> ELSE <<>>)

\* the SQL type each placeholder's context demands
SlotType(slot) ==
    CASE slot \in {"rank_kw", "genre", "kw"} -> "text"
      [] slot = "tag_ids" -> "ints"
      [] OTHER -> "int"

\* the value bound to a placeholder: positional
Bound(q, args, slot) ==
    LET slots == Placeholders(q)
        i == CHOOSE k \in 1..Len(slots) : slots[k] = slot
    IN  args[i].v

\* one predicate of WHERE on post p
ClauseHolds(q, args, clause, p) ==
    CASE clause = "status" -> posts[p].status = "public"
      [] clause = "genre" -> posts[p].genre = Bound(q, args, "genre")
      [] clause = "kw" -> Bound(q, args, "kw") \in Doc(p)
      [] clause = "tags" ->
            LET ids == Bound(q, args, "tag_ids")
                matched == {t \in TagsOf(p) : \E k \in 1..Len(ids) : ids[k] = t}
            IN  Cardinality(matched) = Bound(q, args, "tag_count")

WhereHolds(q, args, p) ==
    \A k \in 1..Len(q.where) : ClauseHolds(q, args, q.where[k], p)

\* ts_rank(p.search_vec, websearch_to_tsquery('simple', %s)) AS rank
RankOf(q, args, p) ==
    IF Bound(q, args, "rank_kw") \in Doc(p) THEN posts[p].weight ELSE 0

\* the first ORDER BY key of post p, as a number that sorts descending
\* (ai_name sorts ascending, so it is compared on its own)
SortNumber(q, args, p) ==
    CASE q.order_by = "updated" -> posts[p].updated_at
      [] q.order_by = "likes" -> FavCount(p)
      [] q.order_by = "relevance" -> RankOf(q, args, p)
      [] OTHER -> 0

\* p comes before r in ORDER BY q.order_by
RowBefore(q, args, p, r) ==
    LET newer == posts[p].created_at > posts[r].created_at
    IN  CASE q.order_by = "old" -> posts[p].created_at < posts[r].created_at
          [] q.order_by = "ai" ->
                \/ StrLess(posts[p].ai_name, posts[r].ai_name)
                \/ posts[p].ai_name = posts[r].ai_name /\ newer
          [] q.order_by \in {"updated", "likes", "relevance"} ->
                \/ SortNumber(q, args, p) > SortNumber(q, args, r)
                \/ SortNumber(q, args, p) = SortNumber(q, args, r) /\ newer
          [] OTHER -> newer

RECURSIVE SortRows(_, _, _)
SortRows(q, args, S) ==
    IF S = {} THEN <<>>
    ELSE LET m == CHOOSE p \in S : \A r \in S \ {p} : RowBefore(q, args, p, r)
         IN  <<m>> \o SortRows(q, args, S \ {m})

\* LIMIT n OFFSET k
LimitOffset(rows, n, k) ==
    IF k >= Len(rows) THEN <<>>
    ELSE SubSeq(rows, k + 1, IF k + n <= Len(rows) THEN k + n ELSE Len(rows))

\* cursor.execute + fetchall: the ids of the rows, or an error.  psycopg2
\* raises when the parameters do not match the placeholders in number; the
\* server raises on a value of the wrong type and on ORDER BY rank when the
\* select list has no column rank.
Execute(q, args) ==
    LET slots == Placeholders(q)
    IN  IF Len(args) # Len(slots)
        THEN [outcome |-> "error", why |-> "parameter count", rows |-> <<>>]
        ELSE IF \E k \in 1..Len(slots) : args[k].t # SlotType(slots[k])
        THEN [outcome |-> "error", why |-> "parameter type", rows |-> <<>>]
        ELSE IF q.order_by = "relevance" /\ ~q.select_rank
        THEN [outcome |-> "error", why |-> "no column rank", rows |-> <<>>]
        ELSE LET hits == {p \in DOMAIN posts : WhereHolds(q, args, p)}
                 sorted == SortRows(q, args, hits)
             IN  [outcome |-> "ok", why |-> "",
                  rows |-> IF q.paged
                           THEN LimitOffset(sorted, Bound(q, args, "limit"),
                                            Bound(q, args, "offset"))
                           ELSE sorted]

\* order_by = {...}.get(sort, "p.created_at DESC")
OrderByOf(sort) ==
    IF sort \in {"new", "updated", "old", "likes", "ai", "relevance"}
    THEN sort ELSE "new"

(***************************************************************************)
(* views_posts.show_posts                                                  *)
(***************************************************************************)
\* a has_next that still offers a page after the last full one
HasNextInclusive(offset, total) == (offset + per_page) <= total
\* has_next = (offset + per_page) < total
HasNext(offset, total) == (offset + per_page) < total

OffsetOf(page) == (page - 1) * per_page

\* the parameters of the page query
ListingParams(f, offset) == f.params \o <<IntArg(per_page), IntArg(offset)>>

\* app_core.cdnize: with a CDN configured, a URL of the bucket is rewritten
\* to the CDN host; every other URL, and every URL without a CDN, is kept
Cdnize(url) ==
    IF url = NoUrl \/ cdn_domain = "" THEN url
    ELSE IF url.prefix = "s3" THEN [url EXCEPT !.prefix = "cdn"]
    ELSE url

\* raw = p.get("image_thumb_url") or p.get("image_url") or p.get("image_orig_url")
\* p["card_image_url"] = cdnize(raw) if raw else None
CardImageUrl(p) ==
    LET raw == IF p.image_thumb_url # NoUrl THEN p.image_thumb_url
               ELSE IF p.image_url # NoUrl THEN p.image_url
               ELSE p.image_orig_url
    IN  IF raw # NoUrl THEN Cdnize(raw) ELSE NoUrl

\* what GET /posts computes for request r
ShowPostsResult(r) ==
    LET page == PageOf(r)
        offset == OffsetOf(page)
        f == BuildPostsFilterSql(r.keyword, r.genre, ListingTagIds(r), IsMod(r))
        count == Execute([select_rank |-> FALSE, where |-> f.where,
                          order_by |-> "", paged |-> FALSE], f.params)
        total == Len(count.rows)
        fetch == Execute([select_rank |-> f.rank_sql, where |-> f.where,
                          order_by |-> OrderByOf(r.sort), paged |-> TRUE],
                         ListingParams(f, offset))
    IN  [op |-> "show_posts",
         outcome |-> IF count.outcome = "ok" THEN fetch.outcome ELSE "error",
         include_non_public |-> IsMod(r),
         rows |-> fetch.rows,
         card_image_url |-> [k \in 1..Len(fetch.rows) |->
                                CardImageUrl(posts[fetch.rows[k]])],
         page |-> page, offset |-> offset,
         total |-> total, has_prev |-> (page > 1),
         has_next |-> HasNext(offset, total)]

ShowPosts ==
    /\ last' = ShowPostsResult(req)
    /\ UNCHANGED <<posts, post_tags, favorites, comments, comment_seq, per_page, cdn_domain,
                   req, now, user_reads, conns, jobs, reports>>

(***************************************************************************)
(* views_api.export_posts_csv, views_api.export_posts_json                 *)
(***************************************************************************)
\* final_params: the keyword for the rank expression first, then params
ExportParams(f, keyword) ==
    (IF f.rank_sql THEN <<TextArg(keyword)>> ELSE <<>>) \o f.params

ExportResult(op, r) ==
    LET f == BuildPostsFilterSql(r.keyword, r.genre, ExportTagIds(r), IsMod(r))
        fetch == Execute([select_rank |-> f.rank_sql, where |-> f.where,
                          order_by |-> OrderByOf(r.sort), paged |-> FALSE],
                         ExportParams(f, r.keyword))
    IN  [op |-> op, outcome |-> fetch.outcome,
         include_non_public |-> IsMod(r), rows |-> fetch.rows]

ExportPostsCsv ==
    /\ last' = ExportResult("export_posts_csv", req)
    /\ UNCHANGED <<posts, post_tags, favorites, comments, comment_seq, per_page, cdn_domain,
                   req, now, user_reads, conns, jobs, reports>>

ExportPostsJson ==
    /\ last' = ExportResult("export_posts_json", req)
    /\ UNCHANGED <<posts, post_tags, favorites, comments, comment_seq, per_page, cdn_domain,
                   req, now, user_reads, conns, jobs, reports>>

(***************************************************************************)
(* Initial states.                                                         *)
(***************************************************************************)
\* a row of table posts; posts are created in id order, post 1 has been
\* edited since, and ts_rank weighs the older posts higher
PostRow(p, status, genre, words) ==
    [status |-> status, genre |-> genre, words |-> words,
     weight |-> NumPosts + 1 - p, created_at |-> p,
     updated_at |-> IF p = 1 THEN NumPosts + 1 ELSE NULLID,
     ai_name |-> <<97 + (p % 2)>>,
     author |-> IF p = 1 THEN "alice" ELSE "bob",
     image_url |-> NoUrl, image_orig_url |-> NoUrl, image_thumb_url |-> NoUrl]

NoRequest == [role |-> "user", keyword |-> "", genre |-> "", tags_param |-> <<>>,
              tag_param |-> <<>>, sort |-> "new",
              page |-> [given |-> FALSE, value |-> 0]]

InitComments ==
    /\ posts = [p \in PostIds |-> PostRow(p, "public", "art", {})]
    /\ post_tags = {}
    /\ favorites = {}
    /\ per_page = DefaultPerPage
    /\ cdn_domain = ""
    /\ req = NoRequest
    /\ comments = {}
    /\ comment_seq = 0
    /\ last = [op |-> "none"]
    /\ now = 0
    /\ user_reads = <<>>
    /\ conns = <<>>
    /\ jobs = <<>>
    /\ reports = <<>>

Roles == {"user", "moderator"}
Keywords == {"", "robot"}
Sorts == {"new", "updated", "old", "likes", "ai", "relevance", "bogus"}

\* tokens of the tags parameter: "1", "2", "x"
Tokens == {<<49>>, <<50>>, <<120>>}
TokenLists == UNION {[1..n -> Tokens] : n \in 0..MaxTagTokens}

\* values of the tag parameter: absent, "2", "x" (the name of tag 1), "z"
TagParams == {<<>>, <<50>>, <<120>>, <<122>>}

Pages == {[given |-> FALSE, value |-> 0]}
         \cup {[given |-> TRUE, value |-> v] : v \in (-1)..MaxPage}

\* requests that vary the filter, and requests that vary sort and page
FilterRequests ==
    {[role |-> ro, keyword |-> kw, genre |-> g, tags_param |-> tl,
      tag_param |-> tp, sort |-> "new", page |-> [given |-> FALSE, value |-> 0]] :
        ro \in Roles, kw \in Keywords, g \in {"", "art"},
        tl \in TokenLists, tp \in {<<>>}}
    \cup
    {[role |-> ro, keyword |-> kw, genre |-> g, tags_param |-> <<>>,
      tag_param |-> tp, sort |-> "new", page |-> [given |-> FALSE, value |-> 0]] :
        ro \in Roles, kw \in Keywords, g \in {"", "art"}, tp \in TagParams}

SortRequests ==
    {[role |-> ro, keyword |-> kw, genre |-> "", tags_param |-> <<>>,
      tag_param |-> <<>>, sort |-> so, page |-> pg] :
        ro \in Roles, kw \in Keywords, so \in Sorts, pg \in Pages}

Requests == FilterRequests \cup SortRequests

\* The store of the listing: post 1 takes every combination of status,
\* genre, searchable words and tags; the other posts are robot posts of
\* genre art carrying every tag, public or hidden.  alice has favorited
\* post 1.
InitListing ==
    /\ \E status1 \in Statuses, genre1 \in Genres, words1 \in SUBSET {"robot"},
          tags1 \in SUBSET TagIds,
          st \in [PostIds \ {1} -> {"public", "hidden"}] :
          /\ posts = [p \in PostIds |->
                        IF p = 1 THEN PostRow(1, status1, genre1, words1)
                        ELSE PostRow(p, st[p], "art", {"robot"})]
          /\ post_tags = {<<1, t>> : t \in tags1}
                         \cup ((PostIds \ {1}) \X TagIds)
    /\ favorites = {[user_id |-> "alice", post_id |-> 1, created_at |-> 0]}
    /\ per_page \in 1..MaxPerPage
    /\ cdn_domain = ""
    /\ req \in Requests
    /\ comments = {}
    /\ comment_seq = 0
    /\ last = [op |-> "none"]
    /\ now = 0
    /\ user_reads = <<>>
    /\ conns = <<>>
    /\ jobs = <<>>
    /\ reports = <<>>

(***************************************************************************)
(* Claims about the filter builder and its three surfaces.                 *)
(***************************************************************************)
Range(seq) == {seq[k] : k \in 1..Len(seq)}

Surfaces == {"show_posts", "export_posts_csv", "export_posts_json"}

\* post p passes the status, genre and keyword filters of request r
PassesOtherFilters(r, p) ==
    /\ IsMod(r) \/ posts[p].status = "public"
    /\ r.genre = "" \/ posts[p].genre = r.genre
    /\ r.keyword = "" \/ r.keyword \in Doc(p)

\* the distinct numeric tag ids a tags parameter names
RequestedTagSet(r) == {ParseInt(tok) : tok \in {t \in Range(r.tags_param) : IsDigit(t)}}

\* the posts request r asks for: they pass the other filters and carry every
\* requested tag
ExpectedPosts(r) ==
    {p \in DOMAIN posts : PassesOtherFilters(r, p) /\ RequestedTagSet(r) \subseteq TagsOf(p)}

\* C5: a request that names tags, in any order and repetition, returns
\* exactly the posts that pass the other filters and carry every distinct
\* tag id named (the listing: counts them and shows a page of them).
C5_TagFilterIsAllOf ==
    (last.op \in Surfaces /\ last.outcome = "ok" /\ req.tags_param # <<>>)
        => IF last.op = "show_posts"
           THEN /\ last.total = Cardinality(ExpectedPosts(req))
                /\ Range(last.rows) \subseteq ExpectedPosts(req)
           ELSE Range(last.rows) = ExpectedPosts(req)

\* C6: a listing or export for a caller who is not staff is built with
\* include_non_public = false and returns public posts only, whatever the
\* keyword, genre and tags are.
C6_NonStaffSeesPublicOnly ==
    (last.op \in Surfaces /\ req.role \notin {"moderator", "admin"})
        => /\ last.include_non_public = FALSE
           /\ \A p \in Range(last.rows) : posts[p].status = "public"

\* a non-staff request answered with rows while a post that is not public
\* passes its genre, keyword and tag filters
C6_Witness ==
    /\ last.op \in Surfaces /\ req.role = "user"
    /\ last.outcome = "ok" /\ last.rows # <<>>
    /\ req.keyword # "" /\ req.genre # "" /\ req.tags_param # <<>>
    /\ \E p \in DOMAIN posts :
          /\ posts[p].status # "public"
          /\ posts[p].genre = req.genre /\ req.keyword \in Doc(p)
          /\ RequestedTagSet(req) \subseteq TagsOf(p)

\* C7: on every surface a request with a keyword executes with parameters
\* that match the placeholders, and returns the posts matching the keyword.
C7_KeywordQueryExecutes ==
    (last.op \in Surfaces /\ req.keyword # "")
        => /\ last.outcome = "ok"
           /\ \A p \in Range(last.rows) : req.keyword \in Doc(p)

\* C8: sort=relevance without a keyword is answered normally, in the default
\* order (created_at descending).
C8_RelevanceWithoutKeywordFallsBack ==
    (last.op \in Surfaces /\ req.sort = "relevance" /\ req.keyword = "")
        => /\ last.outcome = "ok"
           /\ \A a, b \in 1..Len(last.rows) :
                 a < b => posts[last.rows[a]].created_at
                            > posts[last.rows[b]].created_at

\* the listing of request r on page n
ListingPage(r, n) == ShowPostsResult([r EXCEPT !.page = [given |-> TRUE, value |-> n]])

RECURSIVE PagesFrom(_, _)
\* the rows of pages n, n+1, ... of the listing, one after the other
PagesFrom(r, n) ==
    IF n > Cardinality(DOMAIN posts) THEN <<>>
    ELSE ListingPage(r, n).rows \o PagesFrom(r, n + 1)

\* C9: for the same keyword, genre, tags, sort key and caller, an export
\* selects the posts the listing selects over its pages, in the same order,
\* and both exports agree.
C9_SurfacesAgree ==
    (last.op \in {"export_posts_csv", "export_posts_json"} /\ req.tag_param = <<>>)
        => /\ ListingPage(req, 1).outcome = last.outcome
           /\ PagesFrom(req, 1) = last.rows
           /\ ExportResult("export_posts_csv", req).rows
                = ExportResult("export_posts_json", req).rows

\* C10: the listing uses page = max(1, requested), offset = (page-1) *
\* page_size, has_prev = (page > 1), and has_next is false exactly when
\* offset + page_size >= total.
C10_Pagination ==
    last.op = "show_posts"
        => LET requested == IF req.page.given THEN req.page.value ELSE 1
           IN  /\ last.page >= 1 /\ last.page >= requested
               /\ last.page = 1 \/ last.page = requested
               /\ last.offset = (last.page - 1) * per_page
               /\ last.has_prev <=> (last.page > 1)
               /\ (~last.has_next) <=> (last.offset + per_page >= last.total)

\* a page number below 1 was clamped and a next page exists
C10_Witness ==
    /\ last.op = "show_posts" /\ last.outcome = "ok"
    /\ req.page.given /\ req.page.value < 1
    /\ last.page = 1 /\ last.has_next /\ ~last.has_prev

(***************************************************************************)
(* Accounts (app_core.User).                                               *)
(***************************************************************************)
\* table users: username -> role
UserRole == [alice |-> "user", bob |-> "user", carol |-> "moderator",
             dave |-> "admin"]

Usernames == DOMAIN UserRole

\* User.is_admin, User.is_moderator, User.is_staff
IsAdmin(user) == UserRole[user] = "admin"
IsModerator(user) == IsAdmin(user) \/ UserRole[user] = "moderator"
IsStaff(user) == IsModerator(user)

(***************************************************************************)
(* views_posts.toggle_favorite, one request after the other                *)
(***************************************************************************)
\* SELECT 1 FROM favorites WHERE user_id=%s AND post_id=%s
FavoriteRows(user, post_id) ==
    {f \in favorites : f.user_id = user /\ f.post_id = post_id}

\* the check a non-staff caller passes before the INSERT:
\* SELECT status FROM posts WHERE id=%s, then "not st or st[0] != 'public'"
MayFavorite(user, post_id) ==
    IsStaff(user) \/ (post_id \in DOMAIN posts /\ posts[post_id].status = "public")

\* a toggle that inserts whether or not the row exists
ToggledRowsInsertOnly(rows, user, post_id, at) ==
    IF MayFavorite(user, post_id)
    THEN rows \cup {[user_id |-> user, post_id |-> post_id, created_at |-> at]}
    ELSE rows
\* table favorites after the statements of one toggle_favorite: the DELETE
\* when the SELECT found the row, else the INSERT unless the caller may not
\* favorite the post; created_at is the column default CURRENT_TIMESTAMP
ToggledRows(rows, user, post_id, at) ==
    LET mine == {f \in rows : f.user_id = user /\ f.post_id = post_id}
    IN  IF mine # {} THEN rows \ mine
        ELSE IF ~MayFavorite(user, post_id) THEN rows
        ELSE rows \cup {[user_id |-> user, post_id |-> post_id, created_at |-> at]}

\* One POST /favorite/<post_id>, run from its first statement to its commit
\* with no other request in between.
ToggleFavorite(user, post_id) ==
    /\ favorites' = ToggledRows(favorites, user, post_id, now)
    /\ last' = [op |-> "toggle_favorite",
                outcome |-> IF FavoriteRows(user, post_id) # {} THEN "removed"
                            ELSE IF ~MayFavorite(user, post_id) THEN "refused"
                            ELSE "added",
                user |-> user, post_id |-> post_id]
    /\ UNCHANGED <<posts, post_tags, comments, comment_seq, per_page, cdn_domain, req,
                   user_reads, conns, jobs, reports>>

(***************************************************************************)
(* Notification counters (app_core.get_notify_counts_for_user) and         *)
(* watermarks (views_notify.notify_mark_read).                             *)
(*                                                                         *)
(* The columns created_at are filled by NOW() / CURRENT_TIMESTAMP of the   *)
(* database and the watermarks by datetime.utcnow() of the application;    *)
(* the model reads both from the one clock `now`, which moves between two  *)
(* writing requests.                                                       *)
(***************************************************************************)
Categories == {"comments_on_my_posts", "replies_to_me", "favorites_on_my_posts"}

\* the three columns of a row of user_reads, all NULL
NoReads == [cat \in Categories |-> NULLID]

\* get_notify_last_reads: the row of the user, or three None
GetNotifyLastReads(user) ==
    IF user \in DOMAIN user_reads THEN user_reads[user] ELSE NoReads

\* a clause that ignores the watermark
SinceEver(created_at, since) == TRUE
\* "if last[...]: sql += ' AND created_at > %s'"
Since(created_at, since) ==
    IF since # NULLID THEN created_at > since ELSE TRUE

\* the join without the condition on the comment's author
CommentsOnMyPostsByAnyone(username, since) ==
    {<<c, p>> \in comments \X (DOMAIN posts) :
        /\ p = c.post_id
        /\ posts[p].author = username
        /\ Since(c.created_at, since)}
\* FROM comments c JOIN posts p ON p.id = c.post_id
\*  WHERE p.author = %s AND c.author <> %s [AND c.created_at > %s]
CommentsOnMyPosts(username, since) ==
    {<<c, p>> \in comments \X (DOMAIN posts) :
        /\ p = c.post_id
        /\ posts[p].author = username /\ c.author # username
        /\ Since(c.created_at, since)}

\* FROM comments c
\*  WHERE c.parent_id IN (SELECT id FROM comments WHERE author = %s)
\*    AND c.author <> %s [AND c.created_at > %s]
RepliesToMe(username, since) ==
    {c \in comments :
        /\ c.parent_id \in {m.id : m \in {x \in comments : x.author = username}}
        /\ c.author # username
        /\ Since(c.created_at, since)}

\* FROM favorites f JOIN posts p ON p.id = f.post_id
\*                  JOIN users u ON u.id = f.user_id
\*  WHERE p.author = %s AND u.username <> %s [AND f.created_at > %s]
FavoritesOnMyPosts(username, since) ==
    {<<f, p, u>> \in favorites \X (DOMAIN posts) \X Usernames :
        /\ p = f.post_id /\ u = f.user_id
        /\ posts[p].author = username /\ u # username
        /\ Since(f.created_at, since)}

GetNotifyCountsForUser(username) ==
    LET reads == GetNotifyLastReads(username)
    IN  [comments_on_my_posts |->
            Cardinality(CommentsOnMyPosts(username, reads.comments_on_my_posts)),
         replies_to_me |->
            Cardinality(RepliesToMe(username, reads.replies_to_me)),
         favorites_on_my_posts |->
            Cardinality(FavoritesOnMyPosts(username, reads.favorites_on_my_posts))]

\* GET /_notify_counts
NotifyCountsApi(user) ==
    /\ last' = [op |-> "notify_counts", user |-> user,
                counts |-> GetNotifyCountsForUser(user)]
    /\ UNCHANGED <<posts, post_tags, favorites, comments, comment_seq, per_page, cdn_domain,
                   req, now, user_reads, conns, jobs, reports>>

\* an update that writes all three columns whatever the type
MarkedRowAlways(row, typ, at) == [cat \in Categories |-> at]
\* the UPDATE of notify_mark_read: all three columns for "all", the named
\* column for a known type, none otherwise
MarkedRow(row, typ, at) ==
    IF typ = "all" THEN [cat \in Categories |-> at]
    ELSE IF typ \in Categories THEN [row EXCEPT ![typ] = at]
    ELSE row

\* POST /_notify_read with form field type = typ: the INSERT ... ON
\* CONFLICT DO NOTHING makes sure the caller has a row, then one UPDATE
\* writes utcnow() to the named column, or to all three for "all"
NotifyMarkRead(user, typ) ==
    LET row == GetNotifyLastReads(user)
        updated == MarkedRow(row, typ, now)
    IN  /\ user_reads' = [u \in DOMAIN user_reads \cup {user} |->
                            IF u = user THEN updated ELSE user_reads[u]]
        /\ last' = [op |-> "notify_mark_read", user |-> user, typ |-> typ]
        /\ UNCHANGED <<posts, post_tags, favorites, comments, comment_seq,
                       per_page, cdn_domain, req, conns, jobs, reports>>

(***************************************************************************)
(* The notification run: alice owns the one post; alice and bob comment,   *)
(* reply, toggle favorites, mark read and poll their counters.             *)
(***************************************************************************)
NotifyUsers == {"alice", "bob"}
MarkTypes == Categories \cup {"all", "bogus"}

InitNotify ==
    /\ posts = [p \in {1} |-> PostRow(1, "public", "art", {})]
    /\ post_tags = {}
    /\ favorites = {}
    /\ per_page = DefaultPerPage
    /\ cdn_domain = ""
    /\ req = NoRequest
    /\ comments = {}
    /\ comment_seq = 0
    /\ last = [op |-> "none"]
    /\ now = 0
    /\ user_reads = <<>>
    /\ conns = <<>>
    /\ jobs = <<>>
    /\ reports = <<>>

CommentEvent ==
    /\ now < MaxTime
    /\ \E user \in NotifyUsers, post_id \in DOMAIN posts,
          parent_id \in {NULLID} \cup {c.id : c \in comments} :
           AddComment(user, post_id, parent_id, TRUE, comment_seq + 1)
    /\ now' = now + 1

FavoriteEvent ==
    /\ now < MaxTime
    /\ \E user \in NotifyUsers, post_id \in DOMAIN posts :
           ToggleFavorite(user, post_id)
    /\ now' = now + 1

MarkReadEvent ==
    /\ now < MaxTime
    /\ \E user \in NotifyUsers, typ \in MarkTypes : NotifyMarkRead(user, typ)
    /\ now' = now + 1

NotifyCountsStep == \E user \in NotifyUsers : NotifyCountsApi(user)

(***************************************************************************)
(* Claims about the notification counters.                                 *)
(***************************************************************************)
\* the events of a category that concern a user: comments on the user's
\* posts, replies to the user's comments, favorites on the user's posts,
\* each by somebody else
QualifyingEvents(user, cat) ==
    IF cat = "comments_on_my_posts"
    THEN {[kind |-> "comment", id |-> c.id, at |-> c.created_at] :
            c \in {x \in comments : /\ x.post_id \in DOMAIN posts
                                    /\ posts[x.post_id].author = user
                                    /\ x.author # user}}
    ELSE IF cat = "replies_to_me"
    THEN {[kind |-> "reply", id |-> c.id, at |-> c.created_at] :
            c \in {x \in comments :
                     /\ x.author # user
                     /\ \E m \in comments : m.id = x.parent_id /\ m.author = user}}
    ELSE {[kind |-> "favorite", id |-> <<f.user_id, f.post_id>>, at |-> f.created_at] :
            f \in {x \in favorites : /\ x.post_id \in DOMAIN posts
                                     /\ posts[x.post_id].author = user
                                     /\ x.user_id # user}}

\* the events of a category later than the user's watermark, all of them
\* when there is no watermark
UnreadEvents(user, cat) ==
    LET watermark == IF user \in DOMAIN user_reads
                     THEN user_reads[user][cat] ELSE NULLID
    IN  {e \in QualifyingEvents(user, cat) :
            watermark = NULLID \/ e.at > watermark}

\* C11: each of a user's three counters is the number of qualifying events
\* of its category later than that category's watermark (all of them
\* without a watermark); a new qualifying event raises the counter by one,
\* so a counter marked read reads 1 after one new event, and marking a
\* category read brings its counter to 0.
C11_CountersFollowWatermarks ==
    /\ [](\A user \in NotifyUsers, cat \in Categories :
            GetNotifyCountsForUser(user)[cat] = Cardinality(UnreadEvents(user, cat)))
    /\ [][\A user \in NotifyUsers, cat \in Categories :
            /\ (/\ user_reads' = user_reads
                /\ QualifyingEvents(user, cat) \subseteq QualifyingEvents(user, cat)')
                 => GetNotifyCountsForUser(user)'[cat]
                      = GetNotifyCountsForUser(user)[cat]
                        + Cardinality(QualifyingEvents(user, cat)'
                                        \ QualifyingEvents(user, cat))
            /\ (/\ last'.op = "notify_mark_read" /\ now' # now
                /\ last'.user = user /\ last'.typ \in {cat, "all"})
                 => GetNotifyCountsForUser(user)'[cat] = 0]_vars

\* alice polls her counters after one comment by bob, a mark-read and a
\* second comment by bob: the counter reads 1 of 2
C11_Witness ==
    /\ last.op = "notify_counts" /\ last.user = "alice"
    /\ last.counts.comments_on_my_posts = 1
    /\ Cardinality(QualifyingEvents("alice", "comments_on_my_posts")) = 2
    /\ "alice" \in DOMAIN user_reads
    /\ user_reads["alice"].comments_on_my_posts # NULLID

\* C12: a user's own comments on their own posts, own replies to their own
\* comments and own favorites on their own posts count for nothing in that
\* user's counters: a request in which only the user's own rows come or go
\* leaves the user's three counters as they were.
C12_OwnEventsCountNothing ==
    [][\A user \in NotifyUsers :
        (/\ user_reads' = user_reads
         /\ \A c \in (comments' \ comments) \cup (comments \ comments') :
                c.author = user
         /\ \A f \in (favorites' \ favorites) \cup (favorites \ favorites') :
                f.user_id = user)
          => GetNotifyCountsForUser(user)' = GetNotifyCountsForUser(user)]_vars

\* alice has commented on her own post, replied to her own comment and
\* favorited her own post, and her counters read zero
C12_Witness ==
    /\ last.op = "notify_counts" /\ last.user = "alice"
    /\ \A cat \in Categories : last.counts[cat] = 0
    /\ \E c \in comments : c.author = "alice" /\ posts[c.post_id].author = "alice"
    /\ \E c, m \in comments :
          c.author = "alice" /\ m.author = "alice" /\ c.parent_id = m.id
    /\ \E f \in favorites : f.user_id = "alice" /\ posts[f.post_id].author = "alice"

\* C13: marking one category read writes the instant of the call to that
\* category's watermark of the caller and leaves the caller's other two
\* watermarks and every other user's watermarks as they were; "all" writes
\* the same instant to the caller's three watermarks; an unrecognised type
\* changes no watermark.
C13_MarkReadFrame ==
    [][(last'.op = "notify_mark_read" /\ now' # now)
        => \A user \in NotifyUsers, cat \in Categories :
             GetNotifyLastReads(user)'[cat]
               = IF user = last'.user /\ last'.typ \in {cat, "all"}
                 THEN now ELSE GetNotifyLastReads(user)[cat]]_vars

\* bob has just marked his replies read while his other watermarks are
\* unset and alice holds an older watermark
C13_Witness ==
    /\ last.op = "notify_mark_read" /\ last.user = "bob"
    /\ last.typ = "replies_to_me"
    /\ "bob" \in DOMAIN user_reads /\ "alice" \in DOMAIN user_reads
    /\ user_reads["bob"].replies_to_me = now - 1
    /\ user_reads["bob"].comments_on_my_posts = NULLID
    /\ user_reads["alice"].comments_on_my_posts \notin {NULLID, now - 1}

(***************************************************************************)
(* The favorites run: alice (a member) and carol (a moderator) toggle      *)
(* favorites on public, hidden and missing posts, one request after the    *)
(* other.  created_at plays no part in toggling and the clock stands.      *)
(***************************************************************************)
FavUsers == {"alice", "carol"}
FavPosts == 1..(NumPosts + 1)

InitToggle ==
    /\ \E st \in [PostIds -> {"public", "hidden"}] :
          posts = [p \in PostIds |-> PostRow(p, st[p], "art", {})]
    /\ post_tags = {}
    /\ favorites = {}
    /\ per_page = DefaultPerPage
    /\ cdn_domain = ""
    /\ req = NoRequest
    /\ comments = {}
    /\ comment_seq = 0
    /\ last = [op |-> "none"]
    /\ now = 0
    /\ user_reads = <<>>
    /\ conns = <<>>
    /\ jobs = <<>>
    /\ reports = <<>>

ToggleStep ==
    /\ \E user \in FavUsers, post_id \in FavPosts : ToggleFavorite(user, post_id)
    /\ UNCHANGED now

\* SELECT COUNT(*) FROM favorites WHERE post_id=%s over a given table
CountIn(rows, post_id) == Cardinality({f \in rows : f.post_id = post_id})

\* C14: for a user and a post with no favorite row, two toggles in a row,
\* and two such pairs in a row, give back the table as it was: the post's
\* favorite count is the original one and the pair has no row; and the
\* toggle that follows an "added" of the same user and post removes it.
C14_TogglePairsCancel ==
    /\ [](\A user \in FavUsers, post_id \in FavPosts :
            FavoriteRows(user, post_id) = {}
              => LET once == ToggledRows(favorites, user, post_id, now)
                     twice == ToggledRows(once, user, post_id, now)
                     thrice == ToggledRows(twice, user, post_id, now)
                     fourth == ToggledRows(thrice, user, post_id, now)
                 IN  /\ CountIn(twice, post_id) = FavCount(post_id)
                     /\ CountIn(fourth, post_id) = FavCount(post_id)
                     /\ \A f \in twice \cup fourth :
                          ~(f.user_id = user /\ f.post_id = post_id)
                     /\ MayFavorite(user, post_id)
                          => CountIn(once, post_id) = FavCount(post_id) + 1)
    /\ [][(/\ last.op = "toggle_favorite" /\ last.outcome = "added"
           /\ last'.op = "toggle_favorite" /\ last' # last
           /\ last'.user = last.user /\ last'.post_id = last.post_id)
            => /\ last'.outcome = "removed"
               /\ FavoriteRows(last.user, last.post_id)' = {}
               /\ FavCount(last.post_id)' = FavCount(last.post_id) - 1]_vars

\* alice has just taken back her favorite of post 1, which carol still
\* favorites
C14_Witness ==
    /\ last.op = "toggle_favorite" /\ last.outcome = "removed"
    /\ last.user = "alice" /\ last.post_id = 1
    /\ FavoriteRows("alice", 1) = {}
    /\ FavCount(1) = 1

(***************************************************************************)
(* views_posts.toggle_favorite, statement by statement, for requests that  *)
(* overlap.  Each request has its own connection (get_db_connection) and   *)
(* so its own transaction, at the default isolation level READ COMMITTED:  *)
(* a statement sees the committed rows; a DELETE or an INSERT that meets a *)
(* row another transaction has inserted or deleted without committing      *)
(* waits for that transaction to end; UNIQUE (user_id, post_id) rejects    *)
(* the INSERT of a pair that has a committed row.                          *)
(***************************************************************************)
RequestIds == 1..NumRequests

IdleConn == [pc |-> "idle", user |-> "alice", post_id |-> 1, work |-> "none",
             outcome |-> "none"]

\* another request holds an uncommitted INSERT or DELETE of the same pair
PairLocked(r) ==
    \E o \in RequestIds \ {r} :
        /\ conns[o].work # "none"
        /\ conns[o].user = conns[r].user /\ conns[o].post_id = conns[r].post_id

ConnFrame == UNCHANGED <<posts, post_tags, comments, comment_seq, per_page,
                         cdn_domain, req, last, now, user_reads, jobs, reports>>

\* the request arrives: conn = get_db_connection()
BeginToggle(r, user, post_id) ==
    /\ conns[r].pc \in {"idle", "done"}
    /\ conns' = [conns EXCEPT ![r] = [pc |-> "select", user |-> user,
                                      post_id |-> post_id, work |-> "none",
                                      outcome |-> "none"]]
    /\ UNCHANGED favorites /\ ConnFrame

\* SELECT 1 FROM favorites WHERE user_id=%s AND post_id=%s
SelectFavorite(r) ==
    /\ conns[r].pc = "select"
    /\ conns' = [conns EXCEPT ![r].pc =
                    IF FavoriteRows(conns[r].user, conns[r].post_id) # {}
                    THEN "delete"
                    ELSE IF IsStaff(conns[r].user) THEN "insert" ELSE "status"]
    /\ UNCHANGED favorites /\ ConnFrame

\* DELETE FROM favorites WHERE user_id=%s AND post_id=%s
DeleteFavorite(r) ==
    /\ conns[r].pc = "delete"
    /\ ~PairLocked(r)
    /\ conns' = [conns EXCEPT ![r].pc = "commit",
                              ![r].work =
                    IF FavoriteRows(conns[r].user, conns[r].post_id) # {}
                    THEN "delete" ELSE "none"]
    /\ UNCHANGED favorites /\ ConnFrame

\* SELECT status FROM posts WHERE id=%s, and the early return of a caller
\* who may not favorite the post
SelectStatus(r) ==
    /\ conns[r].pc = "status"
    /\ conns' = [conns EXCEPT ![r] =
                    IF MayFavorite(conns[r].user, conns[r].post_id)
                    THEN [@ EXCEPT !.pc = "insert"]
                    ELSE [@ EXCEPT !.pc = "done", !.outcome = "redirect"]]
    /\ UNCHANGED favorites /\ ConnFrame

\* INSERT INTO favorites (user_id, post_id) VALUES (%s,%s): a unique
\* violation raises, nothing catches it, "finally: conn.close()" rolls back
\* and the request ends with the server's error response
InsertFavorite(r) ==
    /\ conns[r].pc = "insert"
    /\ ~PairLocked(r)
    /\ conns' = [conns EXCEPT ![r] =
                    IF FavoriteRows(conns[r].user, conns[r].post_id) # {}
                    THEN [@ EXCEPT !.pc = "done", !.outcome = "error"]
                    ELSE [@ EXCEPT !.pc = "commit", !.work = "insert"]]
    /\ UNCHANGED favorites /\ ConnFrame

\* conn.commit() and the redirect to the post
CommitToggle(r) ==
    /\ conns[r].pc = "commit"
    /\ favorites' =
          IF conns[r].work = "insert"
          THEN favorites \cup {[user_id |-> conns[r].user,
                                post_id |-> conns[r].post_id, created_at |-> now]}
          ELSE IF conns[r].work = "delete"
          THEN favorites \ FavoriteRows(conns[r].user, conns[r].post_id)
          ELSE favorites
    /\ conns' = [conns EXCEPT ![r].pc = "done", ![r].work = "none",
                              ![r].outcome = "redirect"]
    /\ ConnFrame

InitFavorites ==
    /\ \E status \in {"public", "hidden"} :
          posts = [p \in {1} |-> PostRow(1, status, "art", {})]
    /\ post_tags = {}
    /\ favorites = {}
    /\ per_page = DefaultPerPage
    /\ cdn_domain = ""
    /\ req = NoRequest
    /\ comments = {}
    /\ comment_seq = 0
    /\ last = [op |-> "none"]
    /\ now = 0
    /\ user_reads = <<>>
    /\ conns = [r \in RequestIds |-> IdleConn]
    /\ jobs = <<>>
    /\ reports = <<>>

BeginToggleStep ==
    \E r \in RequestIds, user \in FavUsers, post_id \in DOMAIN posts :
        BeginToggle(r, user, post_id)

\* C15: under every interleaving of toggle_favorite requests no (user,
\* post) pair has more than one row, every request ends with a normal
\* response, and the count shown for a post is the number of its rows.
C15_ConcurrentToggles ==
    /\ \A f, g \in favorites :
          (f.user_id = g.user_id /\ f.post_id = g.post_id) => f = g
    /\ \A r \in RequestIds :
          conns[r].pc = "done" => conns[r].outcome = "redirect"
    /\ \A p \in DOMAIN posts :
          FavCount(p) = Cardinality({<<f.user_id, f.post_id>> :
                                        f \in {x \in favorites : x.post_id = p}})

(***************************************************************************)
(* views_posts.edit_post, views_posts.delete_post, views_admin.moderate_post *)
(* each run from its first statement to its commit.                        *)
(***************************************************************************)
\* the INSERTs into post_tags of a request raise when a tag id names no tag
\* (foreign key) or comes twice (primary key (post_id, tag_id))
InsertLinksFails(tag_ids) ==
    \E k \in 1..Len(tag_ids) :
        \/ tag_ids[k] \notin TagIds
        \/ \E j \in 1..(k - 1) : tag_ids[j] = tag_ids[k]

\* post_tags after "DELETE FROM post_tags WHERE post_id=%s" and the INSERTs
RelinkedTags(links, post_id, tag_ids) ==
    {l \in links : l[1] # post_id}
        \cup {<<post_id, tag_ids[k]>> : k \in 1..Len(tag_ids)}

\* UPDATE posts SET title=..., genre=%s, updated_at=NOW() WHERE id=%s
EditedPosts(rows, post_id, form, at) ==
    [rows EXCEPT ![post_id].genre = form.genre, ![post_id].updated_at = at]

\* a cascade that stops at the direct replies
CascadeToReplies(seed) ==
    seed \cup {c \in comments : c.parent_id \in {m.id : m \in seed}}
\* rows a DELETE of the comments in seed takes along: the comments whose
\* parent_id leads to one of them (ON DELETE CASCADE of comments.parent_id)
RECURSIVE Cascade(_)
Cascade(seed) ==
    LET more == seed \cup {c \in comments : c.parent_id \in {m.id : m \in seed}}
    IN  IF more = seed THEN seed ELSE Cascade(more)

\* "(author_username != current_user.username) and (not current_user.is_admin)"
\* is the refusal of edit_post and delete_post
MayChangePost(user, post_id) ==
    posts[post_id].author = user \/ IsAdmin(user)

\* One POST /edit/<post_id> without an image: form.valid says whether title
\* and content are non-empty, form.tag_ids is the tag list after int().
EditPost(user, post_id, form) ==
    /\ IF post_id \notin DOMAIN posts
       THEN /\ last' = [op |-> "edit_post", outcome |-> "not_found",
                        user |-> user, post_id |-> post_id]
            /\ UNCHANGED <<posts, post_tags>>
       ELSE IF ~MayChangePost(user, post_id)
       THEN /\ last' = [op |-> "edit_post", outcome |-> "forbidden",
                        user |-> user, post_id |-> post_id]
            /\ UNCHANGED <<posts, post_tags>>
       ELSE IF ~form.valid
       THEN /\ last' = [op |-> "edit_post", outcome |-> "invalid",
                        user |-> user, post_id |-> post_id]
            /\ UNCHANGED <<posts, post_tags>>
       ELSE IF InsertLinksFails(form.tag_ids)
       THEN /\ last' = [op |-> "edit_post", outcome |-> "error",
                        user |-> user, post_id |-> post_id]
            /\ UNCHANGED <<posts, post_tags>>
       ELSE /\ last' = [op |-> "edit_post", outcome |-> "done",
                        user |-> user, post_id |-> post_id]
            /\ posts' = EditedPosts(posts, post_id, form, now)
            /\ post_tags' = RelinkedTags(post_tags, post_id, form.tag_ids)
    /\ UNCHANGED <<favorites, comments, comment_seq, per_page, cdn_domain, req, now,
                   user_reads, conns, jobs, reports>>

\* One POST /delete/<post_id>: DELETE FROM posts takes the post's tag links
\* and comments along (ON DELETE CASCADE), and with the comments their
\* replies; table favorites has no foreign key and keeps its rows.
DeletePost(user, post_id) ==
    /\ IF post_id \notin DOMAIN posts
       THEN /\ last' = [op |-> "delete_post", outcome |-> "not_found",
                        user |-> user, post_id |-> post_id]
            /\ UNCHANGED <<posts, post_tags, comments>>
       ELSE IF ~MayChangePost(user, post_id)
       THEN /\ last' = [op |-> "delete_post", outcome |-> "forbidden",
                        user |-> user, post_id |-> post_id]
            /\ UNCHANGED <<posts, post_tags, comments>>
       ELSE /\ last' = [op |-> "delete_post", outcome |-> "done",
                        user |-> user, post_id |-> post_id]
            /\ posts' = [p \in DOMAIN posts \ {post_id} |-> posts[p]]
            /\ post_tags' = {l \in post_tags : l[1] # post_id}
            /\ comments' = comments
                             \ Cascade({c \in comments : c.post_id = post_id})
    /\ UNCHANGED <<favorites, comment_seq, per_page, cdn_domain, req, now, user_reads,
                   conns, jobs, reports>>

\* new_status of moderate_post and moderate_comment
NewStatus(action) ==
    IF action = "hide" THEN "hidden"
    ELSE IF action = "unhide" THEN "public"
    ELSE IF action = "delete" THEN "deleted" ELSE ""

\* One POST /moderate/post/<post_id>/<action> behind staff_required.  The
\* row it adds to the log table moderation_actions is not part of the model.
ModeratePost(user, post_id, action) ==
    /\ IF ~IsStaff(user)
       THEN /\ last' = [op |-> "moderate_post", outcome |-> "forbidden",
                        user |-> user, post_id |-> post_id]
            /\ UNCHANGED posts
       ELSE IF NewStatus(action) = ""
       THEN /\ last' = [op |-> "moderate_post", outcome |-> "ignored",
                        user |-> user, post_id |-> post_id]
            /\ UNCHANGED posts
       ELSE /\ last' = [op |-> "moderate_post", outcome |-> "done",
                        user |-> user, post_id |-> post_id]
            /\ posts' = [p \in DOMAIN posts |->
                            IF p = post_id
                            THEN [posts[p] EXCEPT !.status = NewStatus(action),
                                                  !.updated_at = now]
                            ELSE posts[p]]
    /\ UNCHANGED <<post_tags, favorites, comments, comment_seq, per_page, cdn_domain, req,
                   now, user_reads, conns, jobs, reports>>

(***************************************************************************)
(* The moderation run: alice and bob each own a post; they, the moderator  *)
(* carol and the admin dave edit, delete and moderate.                     *)
(***************************************************************************)
EditTagLists == {<<>>, <<1>>, <<1, 1>>, <<3>>}
EditForms == {[valid |-> v, genre |-> g, tag_ids |-> t] :
                v \in BOOLEAN, g \in {"art", "code"}, t \in EditTagLists}
ModerationActions == {"hide", "unhide", "delete", "bogus"}

InitModerate ==
    /\ posts = [p \in PostIds |-> PostRow(p, "public", "art", {})]
    /\ post_tags = {}
    /\ favorites = {}
    /\ per_page = DefaultPerPage
    /\ cdn_domain = ""
    /\ req = NoRequest
    /\ comments = {}
    /\ comment_seq = 0
    /\ last = [op |-> "none"]
    /\ now = 0
    /\ user_reads = <<>>
    /\ conns = <<>>
    /\ jobs = <<>>
    /\ reports = <<>>

EditPostStep ==
    \E user \in Usernames, post_id \in 1..(NumPosts + 1), form \in EditForms :
        EditPost(user, post_id, form)

DeletePostStep ==
    \E user \in Usernames, post_id \in 1..(NumPosts + 1) :
        DeletePost(user, post_id)

ModeratePostStep ==
    \E user \in Usernames, post_id \in 1..(NumPosts + 1),
       action \in ModerationActions :
        ModeratePost(user, post_id, action)

\* C17: a request to edit, delete or moderate an existing post is refused
\* with the forbidden response, leaving the post, its tag links and its
\* status as they were, exactly when the requester is neither the post's
\* author nor staff; the author or a staff member is not refused.
C17_RefusedIffNeitherAuthorNorStaff ==
    [][(/\ last'.op \in {"edit_post", "delete_post", "moderate_post"}
        /\ last'.post_id \in DOMAIN posts)
        => /\ (last'.outcome = "forbidden")
                <=> ~(\/ posts[last'.post_id].author = last'.user
                      \/ IsStaff(last'.user))
           /\ (last'.outcome = "forbidden")
                => (posts' = posts /\ post_tags' = post_tags)]_vars

(***************************************************************************)
(* views_posts.delete_comment                                              *)
(***************************************************************************)
\* One POST /comment/delete/<comment_id>[?post_id=arg_post_id]; NULLID is
\* an absent post_id argument.  With a post_id that names no post the
\* lookup of the post's author returns None and pr[0] raises.
DeleteComment(user, comment_id, arg_post_id) ==
    /\ IF CommentById(comment_id) = {}
       THEN /\ last' = [op |-> "delete_comment", outcome |-> "not_found",
                        user |-> user, comment_id |-> comment_id]
            /\ UNCHANGED comments
       ELSE LET c == CHOOSE x \in CommentById(comment_id) : TRUE
                post_id == IF arg_post_id \notin {NULLID, 0}
                           THEN arg_post_id ELSE c.post_id
            IN  IF post_id \notin DOMAIN posts
                THEN /\ last' = [op |-> "delete_comment", outcome |-> "error",
                                 user |-> user, comment_id |-> comment_id]
                     /\ UNCHANGED comments
                ELSE IF ~(user \in {c.author, posts[post_id].author}
                          \/ IsAdmin(user))
                THEN /\ last' = [op |-> "delete_comment",
                                 outcome |-> "forbidden",
                                 user |-> user, comment_id |-> comment_id]
                     /\ UNCHANGED comments
                ELSE /\ last' = [op |-> "delete_comment", outcome |-> "done",
                                 user |-> user, comment_id |-> comment_id]
                     /\ comments' = comments \ Cascade({c})
    /\ UNCHANGED <<posts, post_tags, favorites, comment_seq, per_page, cdn_domain, req, now,
                   user_reads, conns, jobs, reports>>

(***************************************************************************)
(* The deletion run: bob comments and replies on the posts, every post     *)
(* carries every tag, and the admin dave deletes comments and posts.       *)
(***************************************************************************)
InitDelete ==
    /\ posts = [p \in PostIds |-> PostRow(p, "public", "art", {})]
    /\ post_tags = PostIds \X TagIds
    /\ favorites = {}
    /\ per_page = DefaultPerPage
    /\ cdn_domain = ""
    /\ req = NoRequest
    /\ comments = {}
    /\ comment_seq = 0
    /\ last = [op |-> "none"]
    /\ now = 0
    /\ user_reads = <<>>
    /\ conns = <<>>
    /\ jobs = <<>>
    /\ reports = <<>>

\* a comment, a reply, a reply across posts, or a comment naming itself
ThreadStep ==
    /\ comment_seq < MaxComments
    /\ \E post_id \in DOMAIN posts,
          parent_id \in {NULLID, comment_seq + 1} \cup {c.id : c \in comments} :
           AddComment("bob", post_id, parent_id, TRUE, comment_seq + 1)
    /\ UNCHANGED now

DeleteCommentStep ==
    \E comment_id \in 1..MaxComments,
       arg_post_id \in {NULLID} \cup (1..(NumPosts + 1)) :
        DeleteComment("dave", comment_id, arg_post_id)

AdminDeletePostStep ==
    \E post_id \in 1..(NumPosts + 1) : DeletePost("dave", post_id)

\* following parent_id from comment c reaches the comment with id target in
\* at most fuel steps
RECURSIVE LeadsTo(_, _, _)
LeadsTo(c, target, fuel) ==
    \/ c.id = target
    \/ /\ fuel > 0
       /\ \E m \in comments : m.id = c.parent_id /\ LeadsTo(m, target, fuel - 1)

\* C18: no comment refers to a missing post or a missing parent comment and
\* no tag link refers to a missing post or tag; a post deletion leaves none
\* of the post's tag links and comments; a comment deletion removes exactly
\* the comments from which parent_id leads to the deleted one, itself
\* included.
C18_DeletionsCascade ==
    /\ [](/\ \A c \in comments :
                /\ c.post_id \in DOMAIN posts
                /\ c.parent_id = NULLID \/ CommentById(c.parent_id) # {}
          /\ \A l \in post_tags : l[1] \in DOMAIN posts /\ l[2] \in TagIds)
    /\ [][/\ (last'.op = "delete_post" /\ last'.outcome = "done"
              /\ last'.post_id \in DOMAIN posts)
            => /\ last'.post_id \notin DOMAIN posts'
               /\ \A l \in post_tags' : l[1] # last'.post_id
               /\ \A c \in comments' : c.post_id # last'.post_id
               /\ {l \in post_tags : l[1] # last'.post_id} = post_tags'
          /\ (last'.op = "delete_comment" /\ last'.outcome = "done"
              /\ CommentById(last'.comment_id) # {})
            => /\ comments' \subseteq comments
               /\ comments \ comments'
                    = {c \in comments :
                         LeadsTo(c, last'.comment_id, Cardinality(comments))}
               /\ posts' = posts /\ post_tags' = post_tags]_vars

\* the first comment has just been deleted together with its reply, and
\* the third comment, a root, is still there
C18_Witness ==
    /\ last.op = "delete_comment" /\ last.outcome = "done"
    /\ last.comment_id = 1
    /\ comment_seq = 3
    /\ \E c \in comments : c.id = 3 /\ c.parent_id = NULLID
    /\ Cardinality(comments) = 1

(***************************************************************************)
(* The card run: the listing is shown for stores whose posts have any      *)
(* combination of thumbnail, original upload and legacy image URL, with    *)
(* and without a CDN.                                                      *)
(***************************************************************************)
ThumbUrl(p) == [prefix |-> "s3", key |-> <<"thumb", p>>]
OrigUrl(p) == [prefix |-> "s3", key |-> <<"orig", p>>]
LegacyUrl(p) == [prefix |-> "other", key |-> <<"legacy", p>>]

InitCards ==
    /\ \E thumb, orig, legacy \in [PostIds -> BOOLEAN] :
          posts = [p \in PostIds |->
                     [PostRow(p, "public", "art", {}) EXCEPT
                        !.image_thumb_url = IF thumb[p] THEN ThumbUrl(p) ELSE NoUrl,
                        !.image_orig_url = IF orig[p] THEN OrigUrl(p) ELSE NoUrl,
                        !.image_url = IF legacy[p] THEN LegacyUrl(p) ELSE NoUrl]]
    /\ post_tags = {}
    /\ favorites = {}
    /\ per_page = DefaultPerPage
    /\ cdn_domain \in {"", "cdn.example"}
    /\ req = NoRequest
    /\ comments = {}
    /\ comment_seq = 0
    /\ last = [op |-> "none"]
    /\ now = 0
    /\ user_reads = <<>>
    /\ conns = <<>>
    /\ jobs = <<>>
    /\ reports = <<>>

\* C19: the card image of a listed post is its thumbnail URL if it has
\* one, else its original-upload URL if it has one, else its legacy
\* image_url if it has one, else none (each as the CDN filter serves it).
C19_CardImagePriority ==
    last.op = "show_posts"
        => \A k \in 1..Len(last.rows) :
             LET p == posts[last.rows[k]]
             IN  last.card_image_url[k] =
                    IF p.image_thumb_url # NoUrl THEN Cdnize(p.image_thumb_url)
                    ELSE IF p.image_orig_url # NoUrl THEN Cdnize(p.image_orig_url)
                    ELSE IF p.image_url # NoUrl THEN Cdnize(p.image_url)
                    ELSE NoUrl

(***************************************************************************)
(* views_posts.new_post, views_posts.edit_post and views_posts.add_comment *)
(* statement by statement.  A request works on its own connection: what    *)
(* its statements write stays in the connection's transaction (`work`)     *)
(* until conn.commit(); an exception leaves the handler through            *)
(* "finally: conn.close()", which rolls the transaction back.              *)
(* upload_original_and_enqueue_thumb and the worker's rq_generate_thumbnail *)
(* use connections of their own and commit at once.                        *)
(***************************************************************************)
NoWork == [ins_post |-> FALSE, upd_post |-> FALSE, del_links |-> FALSE,
           links |-> {}, comment |-> {}]

NoForm == [valid |-> TRUE, genre |-> "art", tag_ids |-> <<>>]

IdleWrite == [pc |-> "idle", op |-> "none", user |-> "alice", post_id |-> NULLID,
              form |-> NoForm, attached |-> FALSE, k |-> 0, at |-> 0,
              parent_id |-> NULLID, depth |-> 0, prefix |-> NULLSTR,
              work |-> NoWork, outcome |-> "none"]

\* the row of INSERT INTO posts (...) VALUES (..., NOW(), NOW(), 'public')
NewPostRow(c) ==
    [PostRow(c.post_id, "public", c.form.genre, {}) EXCEPT
        !.author = c.user, !.created_at = c.at, !.updated_at = c.at]

\* the tables after the work of connection c is committed
Applied(db, c) ==
    [posts |->
        IF c.work.ins_post
        THEN [p \in DOMAIN db.posts \cup {c.post_id} |->
                IF p = c.post_id THEN NewPostRow(c) ELSE db.posts[p]]
        ELSE IF c.work.upd_post /\ c.post_id \in DOMAIN db.posts
        THEN EditedPosts(db.posts, c.post_id, c.form, c.at)
        ELSE db.posts,
     post_tags |->
        (IF c.work.del_links
         THEN {l \in db.post_tags : l[1] # c.post_id} ELSE db.post_tags)
            \cup {<<c.post_id, t>> : t \in c.work.links},
     comments |-> db.comments \cup c.work.comment]

\* a close that commits what the connection has written so far
ClosedCommitting(db, c) == Applied(db, c)
\* the tables after conn.close() without a commit: the work is rolled back
Closed(db, c) == db

Tables == [posts |-> posts, post_tags |-> post_tags, comments |-> comments]

SetTables(db) ==
    /\ posts' = db.posts
    /\ post_tags' = db.post_tags
    /\ comments' = db.comments

WriteFrame == UNCHANGED <<favorites, per_page, cdn_domain, req, last, user_reads, reports>>

\* the handler is left by an exception: rollback and the error response
Failed(c) == [c EXCEPT !.pc = "done", !.outcome = "error", !.work = NoWork]

\* POST /new by user: the tag list is read, then title and content are
\* checked
BeginNewPost(r, user, form, attached) ==
    /\ conns[r].pc \in {"idle", "done"}
    /\ now < MaxWrites
    /\ now' = now + 1
    /\ conns' = [conns EXCEPT ![r] =
                    [IdleWrite EXCEPT
                        !.op = "new_post", !.user = user, !.form = form,
                        !.attached = attached, !.at = now,
                        !.pc = IF form.valid THEN "insert_post" ELSE "done",
                        !.outcome = IF form.valid THEN "none" ELSE "invalid"]]
    /\ UNCHANGED <<posts, post_tags, comments, comment_seq, jobs, reports>> /\ WriteFrame

\* INSERT INTO posts ... RETURNING id; the sequence hands out a new id
InsertPost(r) ==
    /\ conns[r].pc = "insert_post"
    /\ conns' = [conns EXCEPT ![r].pc = "insert_link", ![r].k = 1,
                              ![r].post_id = FirstPosts + now,
                              ![r].work.ins_post = TRUE]
    /\ UNCHANGED <<posts, post_tags, comments, comment_seq, jobs, now, reports>>
    /\ WriteFrame

\* POST /edit/<post_id> by user: the post is read (404), the author is
\* compared (403), the form is checked
BeginEditPost(r, user, post_id, form, attached) ==
    /\ conns[r].pc \in {"idle", "done"}
    /\ now < MaxWrites
    /\ now' = now + 1
    /\ LET outcome == IF post_id \notin DOMAIN posts THEN "not_found"
                      ELSE IF ~MayChangePost(user, post_id) THEN "forbidden"
                      ELSE IF ~form.valid THEN "invalid" ELSE "none"
       IN  conns' = [conns EXCEPT ![r] =
                       [IdleWrite EXCEPT
                           !.op = "edit_post", !.user = user,
                           !.post_id = post_id, !.form = form,
                           !.attached = attached, !.at = now,
                           !.pc = IF outcome = "none" THEN "update_post"
                                  ELSE "done",
                           !.outcome = outcome]]
    /\ UNCHANGED <<posts, post_tags, comments, comment_seq, jobs, reports>> /\ WriteFrame

\* UPDATE posts SET title=%s, ..., updated_at=NOW() WHERE id=%s
UpdatePost(r) ==
    /\ conns[r].pc = "update_post"
    /\ conns' = [conns EXCEPT ![r].pc = "delete_links",
                              ![r].work.upd_post = TRUE]
    /\ UNCHANGED <<posts, post_tags, comments, comment_seq, jobs, now, reports>>
    /\ WriteFrame

\* DELETE FROM post_tags WHERE post_id=%s
DeleteLinks(r) ==
    /\ conns[r].pc = "delete_links"
    /\ conns' = [conns EXCEPT ![r].pc = "insert_link", ![r].k = 1,
                              ![r].work.del_links = TRUE]
    /\ UNCHANGED <<posts, post_tags, comments, comment_seq, jobs, now, reports>>
    /\ WriteFrame

\* one turn of "for tid in ...: INSERT INTO post_tags (post_id, tag_id)":
\* the INSERT raises for an id of no tag and for an id that came before
InsertLink(r) ==
    /\ conns[r].pc = "insert_link"
    /\ LET c == conns[r]
           tid == c.form.tag_ids[c.k]
       IN  IF c.k > Len(c.form.tag_ids)
           THEN /\ conns' = [conns EXCEPT ![r].pc = "commit"]
                /\ UNCHANGED <<posts, post_tags, comments>>
           ELSE IF tid \notin TagIds \/ tid \in c.work.links
           THEN /\ conns' = [conns EXCEPT ![r] = Failed(c)]
                /\ SetTables(Closed(Tables, c))
           ELSE /\ conns' = [conns EXCEPT ![r].k = c.k + 1,
                                         ![r].work.links = c.work.links \cup {tid}]
                /\ UNCHANGED <<posts, post_tags, comments>>
    /\ UNCHANGED <<comment_seq, jobs, now>> /\ WriteFrame

\* POST /comment/<post_id> by user
BeginAddComment(r, user, post_id, parent_id, has_text) ==
    /\ conns[r].pc \in {"idle", "done"}
    /\ now < MaxWrites
    /\ now' = now + 1
    /\ conns' = [conns EXCEPT ![r] =
                    [IdleWrite EXCEPT
                        !.op = "add_comment", !.user = user,
                        !.post_id = post_id, !.parent_id = parent_id,
                        !.at = now,
                        !.pc = IF has_text THEN "select_parent" ELSE "done",
                        !.outcome = IF has_text THEN "none" ELSE "empty"]]
    /\ UNCHANGED <<posts, post_tags, comments, comment_seq, jobs, reports>> /\ WriteFrame

\* SELECT id, path, depth FROM comments WHERE id=%s AND post_id=%s
SelectParent(r) ==
    /\ conns[r].pc = "select_parent"
    /\ LET c == conns[r]
           pr == IF c.parent_id \notin {NULLID, 0}
                 THEN ParentRow(c.parent_id, c.post_id) ELSE {}
       IN  conns' = [conns EXCEPT ![r].pc = "insert_comment",
                                  ![r].depth = NewDepth(pr),
                                  ![r].prefix = NewPrefix(pr)]
    /\ UNCHANGED <<posts, post_tags, comments, comment_seq, jobs, now, reports>>
    /\ WriteFrame

\* INSERT INTO comments (..., parent_id, depth, path, status) RETURNING id:
\* the row is written with the prefix as its path
InsertComment(r) ==
    /\ conns[r].pc = "insert_comment"
    /\ comment_seq' = comment_seq + 1
    /\ LET c == conns[r]
           cid == comment_seq + 1
           row == [id |-> cid, post_id |-> c.post_id,
                   parent_id |-> c.parent_id, depth |-> c.depth,
                   path |-> c.prefix, status |-> "public",
                   author |-> c.user, created_at |-> c.at]
       IN  IF CommentFKOk(c.post_id, c.parent_id, cid)
           THEN /\ conns' = [conns EXCEPT ![r].pc = "update_path",
                                         ![r].work.comment = {row}]
                /\ UNCHANGED <<posts, post_tags, comments>>
           ELSE /\ conns' = [conns EXCEPT ![r] = Failed(c)]
                /\ SetTables(Closed(Tables, c))
    /\ UNCHANGED <<jobs, now>> /\ WriteFrame

\* UPDATE comments SET path=%s WHERE id=%s
UpdatePath(r) ==
    /\ conns[r].pc = "update_path"
    /\ conns' = [conns EXCEPT ![r].pc = "commit",
                              ![r].work.comment =
                    {[row EXCEPT !.path = NewPath(conns[r].prefix, row.id)] :
                        row \in conns[r].work.comment}]
    /\ UNCHANGED <<posts, post_tags, comments, comment_seq, jobs, now, reports>>
    /\ WriteFrame

\* conn.commit(): add_comment answers with the redirect; new_post and
\* edit_post go on to the image
Commit(r) ==
    /\ conns[r].pc = "commit"
    /\ SetTables(Applied(Tables, conns[r]))
    /\ conns' = [conns EXCEPT ![r] =
                    IF conns[r].op = "add_comment"
                    THEN [@ EXCEPT !.pc = "done", !.outcome = "redirect",
                                   !.work = NoWork]
                    ELSE [@ EXCEPT !.pc = "image", !.work = NoWork]]
    /\ UNCHANGED <<comment_seq, jobs, now>> /\ WriteFrame

\* a statement of the transaction raises (the database is unreachable, a
\* statement times out, ...)
Raise(r) ==
    /\ conns[r].pc \in {"insert_post", "insert_link", "update_post",
                        "delete_links", "select_parent", "insert_comment",
                        "update_path", "commit"}
    /\ conns' = [conns EXCEPT ![r] = Failed(conns[r])]
    /\ SetTables(Closed(Tables, conns[r]))
    /\ UNCHANGED <<comment_seq, jobs, now>> /\ WriteFrame

\* what upload_original_and_enqueue_thumb can come to: validate_image_file
\* raises, the conversion or the upload raises, the UPDATE of its own
\* connection raises, the enqueue raises (logged) or there is no queue, or
\* the job is put on the queue
UploadResults == {"invalid", "upload_failed", "update_failed", "not_enqueued",
                  "enqueued"}

\* a handler that lets an upload error through
ResponseAfterUploadStrict(result) ==
    IF result \in {"not_enqueued", "enqueued"} THEN "redirect" ELSE "error"
\* "except UploadError ... except Exception ...": every failure is flashed
\* as a warning and the handler goes on to its redirect
ResponseAfterUpload(result) == "redirect"

\* the image part of new_post and edit_post and the response
UploadAndFinish(r) ==
    /\ conns[r].pc = "image"
    /\ \E result \in UploadResults :
        LET c == conns[r]
            url == Cdnize(OrigUrl(c.at))
            stored == c.attached /\ result \in {"not_enqueued", "enqueued"}
                        /\ c.post_id \in DOMAIN posts
        IN  /\ c.attached \/ result = "invalid"
            /\ posts' = IF stored
                        THEN [posts EXCEPT ![c.post_id].image_orig_url = url,
                                           ![c.post_id].updated_at = c.at]
                        ELSE posts
            /\ jobs' = IF c.attached /\ result = "enqueued"
                       THEN Append(jobs, [post_id |-> c.post_id, orig_url |-> url])
                       ELSE jobs
            /\ conns' = [conns EXCEPT ![r].pc = "done",
                                      ![r].outcome =
                            IF c.attached THEN ResponseAfterUpload(result)
                            ELSE "redirect"]
    /\ UNCHANGED <<post_tags, comments, comment_seq, now, reports>> /\ WriteFrame

\* thumb_key = f"thumb_{base}_{ts}.jpg" and the URL of the bucket under it:
\* base is the name of the original's key and ts the second of the run
JobThumbUrl(orig_url, at) ==
    [prefix |-> "s3", key |-> <<"thumb", orig_url.key[2], at>>]

\* the worker runs one job of the queue: rq_generate_thumbnail either
\* raises on the way (logged by the worker) or writes the thumbnail URL of
\* the post, if the post is still there
RqGenerateThumbnail ==
    /\ \E k \in 1..Len(jobs), done \in BOOLEAN :
        LET job == jobs[k]
        IN  /\ jobs' = [j \in 1..(Len(jobs) - 1) |->
                          IF j < k THEN jobs[j] ELSE jobs[j + 1]]
            /\ posts' = IF done /\ job.post_id \in DOMAIN posts
                        THEN [posts EXCEPT
                                ![job.post_id].image_thumb_url =
                                    JobThumbUrl(job.orig_url, now),
                                ![job.post_id].updated_at = now]
                        ELSE posts
    /\ UNCHANGED <<post_tags, comments, comment_seq, conns, now, reports>> /\ WriteFrame

(***************************************************************************)
(* The writing run: alice owns post 1 and writes, edits and comments,      *)
(* one request at a time, while the worker works off the queue.            *)
(***************************************************************************)
WriteForms == {[valid |-> v, genre |-> "code", tag_ids |-> t] :
                 v \in {TRUE}, t \in {<<>>, <<1, 2>>, <<1, 3>>}}
              \cup {[valid |-> FALSE, genre |-> "code", tag_ids |-> <<>>]}

InitWrites ==
    /\ posts = [p \in 1..FirstPosts |-> PostRow(p, "public", "art", {})]
    /\ post_tags = {<<1, 1>>}
    /\ favorites = {}
    /\ per_page = DefaultPerPage
    /\ cdn_domain = ""
    /\ req = NoRequest
    /\ comments = {}
    /\ comment_seq = 0
    /\ last = [op |-> "none"]
    /\ now = 0
    /\ user_reads = <<>>
    /\ conns = [r \in {1} |-> IdleWrite]
    /\ jobs = <<>>
    /\ reports = <<>>

BeginNewPostStep ==
    \E form \in WriteForms, attached \in BOOLEAN :
        BeginNewPost(1, "alice", form, attached)
BeginEditPostStep ==
    \E user \in {"alice", "bob"}, post_id \in 1..(FirstPosts + 1),
       form \in WriteForms, attached \in BOOLEAN :
        BeginEditPost(1, user, post_id, form, attached)
BeginAddCommentStep ==
    \E post_id \in 1..(FirstPosts + 1),
       parent_id \in {NULLID, 1, 2}, has_text \in BOOLEAN :
        BeginAddComment(1, "alice", post_id, parent_id, has_text)

(***************************************************************************)
(* Claims about the writing requests.                                      *)
(***************************************************************************)
\* the columns of posts that new_post and edit_post write from the form
TextOf(rows) ==
    [p \in DOMAIN rows |-> [genre |-> rows[p].genre, status |-> rows[p].status,
                            author |-> rows[p].author,
                            created_at |-> rows[p].created_at]]

TagsIn(links, post_id) == {l[2] : l \in {x \in links : x[1] = post_id}}

\* the last segment of path is the padded id
EndsWithOwnId(c) ==
    LET own == ZeroPad(c.id)
        n == Len(c.path) - Len(own)
    IN  /\ n >= 0
        /\ SubSeq(c.path, n + 1, Len(c.path)) = own
        /\ n > 0 => c.path[n] = SlashChar

\* C16: the writes of add_comment, new_post and edit_post become visible
\* together or not at all: the committed text columns, tag links and
\* comments change only in the step that commits the whole request, a
\* request that fails leaves them as they were, no committed comment has a
\* null path or a path without its own id segment, and the commit of a
\* post leaves it with exactly the requested tag links.
C16_WritesAreAllOrNothing ==
    /\ [](\A c \in comments : c.path # NULLSTR /\ EndsWithOwnId(c))
    /\ [][/\ (\/ TextOf(posts') # TextOf(posts)
              \/ post_tags' # post_tags
              \/ comments' # comments)
            => /\ conns[1].pc = "commit"
               /\ conns'[1].pc \in {"image", "done"}
               /\ conns'[1].outcome # "error"
          /\ (conns'[1].outcome = "error" /\ conns[1].outcome # "error")
            => /\ posts' = posts /\ post_tags' = post_tags
               /\ comments' = comments
          /\ (conns[1].pc = "commit" /\ conns'[1].pc = "image")
            => /\ conns[1].post_id \in DOMAIN posts'
               /\ posts'[conns[1].post_id].genre = conns[1].form.genre
               /\ TagsIn(post_tags', conns[1].post_id)
                    = Range(conns[1].form.tag_ids)]_vars

\* new_post has inserted the post and its first tag link, the second link
\* named no tag, and nothing of the request is in the store
C16_Witness ==
    /\ conns[1].op = "new_post" /\ conns[1].outcome = "error"
    /\ conns[1].form.tag_ids = <<1, 3>>
    /\ conns[1].post_id # NULLID
    /\ conns[1].post_id \notin DOMAIN posts
    /\ TagsIn(post_tags, conns[1].post_id) = {}

Handlers == {"export_posts_csv", "export_posts_json", "notify_mark_read",
             "get_notify_counts_for_user", "toggle_favorite", "create_report"}

\* cur.execute and conn.commit calls between acquisition and conn.close()
Statements ==
    [export_posts_csv |-> 1, export_posts_json |-> 1, notify_mark_read |-> 3,
     get_notify_counts_for_user |-> 4, toggle_favorite |-> 3,
     create_report |-> 2]

\* handlers whose conn.close() stands in a finally clause
ClosesInFinally == {"toggle_favorite", "create_report"}

\* handlers with an except clause around their statements
CatchesException == {"create_report"}

NoConnection == [pc |-> "idle", handler |-> "none", stmt |-> 0, open |-> FALSE,
                 outcome |-> "none"]

\* conn = get_db_connection()
Acquire(r, h) ==
    /\ conns[r].pc \in {"idle", "done"}
    /\ ~conns[r].open
    /\ conns' = [conns EXCEPT ![r] = [pc |-> "running", handler |-> h,
                                      stmt |-> 0, open |-> TRUE,
                                      outcome |-> "none"]]
    /\ UNCHANGED <<posts, post_tags, favorites, comments, comment_seq,
                   per_page, cdn_domain, req, last, now, user_reads, jobs, reports>>

\* the next cur.execute(...) or conn.commit() returns
ExecuteStatement(r) ==
    /\ conns[r].pc = "running"
    /\ conns[r].stmt < Statements[conns[r].handler]
    /\ conns' = [conns EXCEPT ![r].stmt = @ + 1]
    /\ UNCHANGED <<posts, post_tags, favorites, comments, comment_seq,
                   per_page, cdn_domain, req, last, now, user_reads, jobs, reports>>

\* the next cur.execute(...) or conn.commit() raises: control leaves the
\* handler through its except and finally clauses, if it has any
StatementRaises(r) ==
    /\ conns[r].pc = "running"
    /\ conns[r].stmt < Statements[conns[r].handler]
    /\ conns' = [conns EXCEPT
          ![r].pc = "done",
          ![r].open = IF conns[r].handler \in ClosesInFinally
                      THEN FALSE ELSE TRUE,
          ![r].outcome = IF conns[r].handler \in CatchesException
                         THEN "flash" ELSE "error"]
    /\ UNCHANGED <<posts, post_tags, favorites, comments, comment_seq,
                   per_page, cdn_domain, req, last, now, user_reads, jobs, reports>>

\* conn.close() after the last statement, and the response
CloseConnection(r) ==
    /\ conns[r].pc = "running"
    /\ conns[r].stmt = Statements[conns[r].handler]
    /\ conns' = [conns EXCEPT ![r].pc = "done", ![r].open = FALSE,
                              ![r].outcome = "ok"]
    /\ UNCHANGED <<posts, post_tags, favorites, comments, comment_seq,
                   per_page, cdn_domain, req, last, now, user_reads, jobs, reports>>

InitConnections ==
    /\ posts = [p \in {1} |-> PostRow(1, "public", "art", {})]
    /\ post_tags = {}
    /\ favorites = {}
    /\ per_page = DefaultPerPage
    /\ cdn_domain = ""
    /\ req = NoRequest
    /\ comments = {}
    /\ comment_seq = 0
    /\ last = [op |-> "none"]
    /\ now = 0
    /\ user_reads = <<>>
    /\ conns = [r \in RequestIds |-> NoConnection]
    /\ jobs = <<>>
    /\ reports = <<>>

AcquireStep == \E r \in RequestIds, h \in Handlers : Acquire(r, h)

\* C21: no finished request leaves its database connection open, whether it
\* ended normally or because a statement raised.
C21_FinishedRequestsReleased ==
    \A r \in RequestIds : conns[r].pc = "done" => ~conns[r].open

\* the part of C21 that the handlers with try/finally keep
C21_FinallyReleases ==
    \A r \in RequestIds :
        (conns[r].pc = "done" /\ conns[r].handler \in ClosesInFinally)
            => ~conns[r].open

(***************************************************************************)
(* Reports (views_admin.create_report).  The table has                     *)
(* UNIQUE (target_type, target_id, reporter_id) and the handler inserts    *)
(* with ON CONFLICT ... DO NOTHING.  Requests run on connections of their  *)
(* own under READ COMMITTED: an INSERT that meets an uncommitted row with  *)
(* its key waits until that transaction has ended.                         *)
(***************************************************************************)
ReportKey(row) == <<row.target_type, row.target_id, row.reporter_id>>

IdleReport == [pc |-> "idle", user |-> "alice", target_type |-> "post",
               target_id |-> 0, reason |-> "", work |-> <<>>,
               outcome |-> "none"]

\* INSERT INTO reports (...) VALUES (%s,%s,%s,%s,'open',NOW())
\* with no conflict clause and no constraint
ReportedRowsAlways(rows, row) == <<row>>

\* INSERT INTO reports (...) VALUES (%s,%s,%s,%s,'open',NOW())
\*   ON CONFLICT (target_type, target_id, reporter_id) DO NOTHING
\* against the committed rows: the rows this statement adds
ReportedRows(rows, row) ==
    IF \E i \in 1..Len(rows) : ReportKey(rows[i]) = ReportKey(row)
    THEN <<>>
    ELSE <<row>>

\* another connection holds an uncommitted row with the key of request r
ReportKeyLocked(r) ==
    \E o \in RequestIds \ {r} :
        /\ conns[o].work # <<>>
        /\ ReportKey(conns[o].work[1]) =
               <<conns[r].target_type, conns[r].target_id, conns[r].user>>

ReportFrame == UNCHANGED <<posts, post_tags, favorites, comments, comment_seq,
                           per_page, cdn_domain, req, last, now, user_reads,
                           jobs>>

\* the request arrives; an invalid form is answered before a connection
\* is opened
BeginReport(r, user, target_type, target_id, reason) ==
    /\ conns[r].pc \in {"idle", "done"}
    /\ IF target_type \notin {"post", "comment"} \/ target_id = 0
       THEN conns' = [conns EXCEPT ![r] =
                [IdleReport EXCEPT !.pc = "done", !.outcome = "invalid"]]
       ELSE conns' = [conns EXCEPT ![r] =
                [pc |-> "insert", user |-> user, target_type |-> target_type,
                 target_id |-> target_id, reason |-> reason, work |-> <<>>,
                 outcome |-> "none"]]
    /\ UNCHANGED reports /\ ReportFrame

InsertReport(r) ==
    /\ conns[r].pc = "insert"
    /\ ~ReportKeyLocked(r)
    /\ LET row == [target_type |-> conns[r].target_type,
                   target_id |-> conns[r].target_id,
                   reporter_id |-> conns[r].user,
                   reason |-> conns[r].reason,
                   status |-> "open", created_at |-> now]
       IN  conns' = [conns EXCEPT ![r].pc = "commit",
                                  ![r].work = ReportedRows(reports, row)]
    /\ UNCHANGED reports /\ ReportFrame

\* conn.commit(), the flash and finally: conn.close()
CommitReport(r) ==
    /\ conns[r].pc = "commit"
    /\ reports' = reports \o conns[r].work
    /\ conns' = [conns EXCEPT ![r].pc = "done", ![r].work = <<>>,
                              ![r].outcome = "reported"]
    /\ ReportFrame

\* the INSERT or the commit raises: except Exception: conn.rollback()
ReportFails(r) ==
    /\ conns[r].pc \in {"insert", "commit"}
    /\ conns' = [conns EXCEPT ![r].pc = "done", ![r].work = <<>>,
                              ![r].outcome = "failed"]
    /\ UNCHANGED reports /\ ReportFrame

Reporters == {"alice", "bob"}
ReportTargetTypes == {"post", "user"}
ReportTargetIds == {0, 1}
ReportReasons == {"spam", "abuse"}

InitReports ==
    /\ posts = [p \in {1} |-> PostRow(1, "public", "art", {})]
    /\ post_tags = {}
    /\ favorites = {}
    /\ per_page = DefaultPerPage
    /\ cdn_domain = ""
    /\ req = NoRequest
    /\ comments = {}
    /\ comment_seq = 0
    /\ last = [op |-> "none"]
    /\ now = 0
    /\ user_reads = <<>>
    /\ conns = [r \in RequestIds |-> IdleReport]
    /\ jobs = <<>>
    /\ reports = <<>>

BeginReportStep ==
    \E r \in RequestIds, user \in Reporters, target_type \in ReportTargetTypes,
       target_id \in ReportTargetIds, reason \in ReportReasons :
        BeginReport(r, user, target_type, target_id, reason)

\* C22: under every interleaving of create_report requests there is at most
\* one report per (target_type, target_id, reporter_id), no step changes or
\* removes a report that exists, and a report is added only for a key that
\* has none: a repeated report adds no row and leaves the existing one's
\* reason and status as they were.
C22_OneReportPerKey ==
    /\ [](\A i, j \in 1..Len(reports) :
             ReportKey(reports[i]) = ReportKey(reports[j]) => i = j)
    /\ [][/\ Len(reports') >= Len(reports)
          /\ SubSeq(reports', 1, Len(reports)) = reports
          /\ \A r \in RequestIds :
                (/\ conns[r].pc = "commit" /\ conns'[r].pc = "done"
                 /\ conns'[r].outcome = "reported"
                 /\ \E i \in 1..Len(reports) :
                       ReportKey(reports[i]) =
                         <<conns[r].target_type, conns[r].target_id,
                           conns[r].user>>)
                    => reports' = reports]_vars

\* a second report of the same target by the same reporter, with another
\* reason, has been answered and the first report stands
C22_Witness ==
    \E r \in RequestIds, i \in 1..Len(reports) :
        /\ conns[r].pc = "done" /\ conns[r].outcome = "reported"
        /\ ReportKey(reports[i]) =
               <<conns[r].target_type, conns[r].target_id, conns[r].user>>
        /\ reports[i].reason # conns[r].reason

(***************************************************************************)
(* views_admin.moderate_comment, and the comment thread under comments,    *)
(* moderation and deletion.                                                *)
(***************************************************************************)
\* UPDATE comments SET status=%s over the comment and all its descendants
ModeratedRowsWithReplies(rows, comment_id, new_status) ==
    {IF c \in Cascade({m \in rows : m.id = comment_id})
     THEN [c EXCEPT !.status = new_status] ELSE c : c \in rows}

\* UPDATE comments SET status=%s WHERE id=%s
ModeratedRows(rows, comment_id, new_status) ==
    {IF c.id = comment_id THEN [c EXCEPT !.status = new_status] ELSE c :
        c \in rows}

\* One POST /moderate/comment/<comment_id>/<action>.  The handler also adds
\* a row to moderation_actions, a table that no other handler reads.
ModerateComment(user, comment_id, action) ==
    /\ IF ~IsStaff(user)
       THEN /\ last' = [op |-> "moderate_comment", outcome |-> "forbidden",
                        user |-> user, comment_id |-> comment_id,
                        action |-> action]
            /\ UNCHANGED comments
       ELSE IF action = "delete"
       THEN /\ last' = [op |-> "moderate_comment", outcome |-> "removed",
                        user |-> user, comment_id |-> comment_id,
                        action |-> action]
            /\ comments' = comments \ Cascade(CommentById(comment_id))
       ELSE IF action \in {"hide", "unhide"}
       THEN /\ last' = [op |-> "moderate_comment", outcome |-> "applied",
                        user |-> user, comment_id |-> comment_id,
                        action |-> action]
            /\ comments' = ModeratedRows(comments, comment_id,
                               IF action = "hide" THEN "hidden" ELSE "public")
       ELSE /\ last' = [op |-> "moderate_comment", outcome |-> "ignored",
                        user |-> user, comment_id |-> comment_id,
                        action |-> action]
            /\ UNCHANGED comments
    /\ UNCHANGED <<posts, post_tags, favorites, comment_seq, per_page,
                   cdn_domain, req, now, user_reads, conns, jobs, reports>>

CommentActions == {"hide", "unhide", "delete"}

\* the thread run: alice comments and replies on her own post and on bob's;
\* bob and the moderator carol ask for deletions and moderate
InitThread ==
    /\ posts = [p \in {1, 2} |-> PostRow(p, "public", "art", {})]
    /\ post_tags = {}
    /\ favorites = {}
    /\ per_page = DefaultPerPage
    /\ cdn_domain = ""
    /\ req = NoRequest
    /\ comments = {}
    /\ comment_seq = 0
    /\ last = [op |-> "none"]
    /\ now = 0
    /\ user_reads = <<>>
    /\ conns = <<>>
    /\ jobs = <<>>
    /\ reports = <<>>

ThreadCommentStep ==
    /\ comment_seq < MaxComments
    /\ \E post_id \in DOMAIN posts,
          parent_id \in {NULLID} \cup {c.id : c \in comments} :
           AddComment("alice", post_id, parent_id, TRUE, comment_seq + 1)
    /\ UNCHANGED now

ThreadDeleteStep ==
    \E user \in {"bob", "carol"}, comment_id \in 1..MaxComments,
       arg_post_id \in {NULLID} \cup DOMAIN posts :
        DeleteComment(user, comment_id, arg_post_id)

ThreadModerateStep ==
    \E user \in {"bob", "carol"}, comment_id \in 1..MaxComments,
       action \in CommentActions :
        ModerateComment(user, comment_id, action)

\* C23: a step changes no comment's path, depth, parent_id or post_id, and
\* a hide or unhide keeps every comment, changing at most the status of the
\* comment it names.
C23_PathsImmutable ==
    [][/\ \A c \in comments, d \in comments' :
             c.id = d.id =>
                /\ d.path = c.path /\ d.depth = c.depth
                /\ d.parent_id = c.parent_id /\ d.post_id = c.post_id
       /\ (last'.op = "moderate_comment" /\ last'.action \in {"hide", "unhide"})
             => /\ {c.id : c \in comments'} = {c.id : c \in comments}
                /\ \A c \in comments :
                      \/ c \in comments'
                      \/ /\ c.id = last'.comment_id
                         /\ last'.outcome = "applied"
                         /\ [c EXCEPT !.status =
                                IF last'.action = "hide" THEN "hidden"
                                ELSE "public"] \in comments']_vars

\* a comment with a reply has been hidden, and the reply is as it was
C23_Witness ==
    /\ last.op = "moderate_comment" /\ last.action = "hide"
    /\ \E c, d \in comments :
          /\ c.id = last.comment_id /\ c.status = "hidden"
          /\ d.parent_id = c.id /\ d.id # c.id /\ d.status = "public"
          /\ IsPrefix(c.path, d.path)

\* C25: a delete_comment request removes comments only when the requester
\* is the author of the comment it names, the author of the post that
\* comment belongs to, or an admin, whatever post_id argument it carries.
C25_DeleteCommentPermission ==
    [][(last'.op = "delete_comment" /\ comments' # comments)
          => \E c \in comments :
                /\ c.id = last'.comment_id
                /\ \/ last'.user \in {c.author, posts[c.post_id].author}
                   \/ IsAdmin(last'.user)]_vars

\* C30: in the comment list of a post as a viewer who is not staff gets it,
\* every reply's parent is in the list too.
C30_DisplayedRepliesHaveParents ==
    \A post_id \in DOMAIN posts :
        LET shown == CommentListing(post_id, FALSE)
        IN  \A k \in 1..Len(shown) :
              \A c \in CommentById(shown[k]) :
                c.parent_id # NULLID
                    => \E j \in 1..Len(shown) : shown[j] = c.parent_id

\* C30 for the replies whose parent is a comment of the same post
C30_SamePostReplies ==
    \A post_id \in DOMAIN posts :
        LET shown == CommentListing(post_id, FALSE)
        IN  \A k \in 1..Len(shown) :
              \A c \in CommentById(shown[k]) :
                ParentRow(c.parent_id, post_id) # {}
                    => \E j \in 1..Len(shown) : shown[j] = c.parent_id

(***************************************************************************)
(* Image uploads of one post and the thumbnail worker.  The queue hands a  *)
(* job to a worker at least once: a job whose acknowledgement is lost is   *)
(* handed out again, after any delay and in any order with other jobs.     *)
(***************************************************************************)
\* UPDATE posts SET image_thumb_url=%s, updated_at=NOW() WHERE id=%s
ThumbnailWritten(rows, job, at) ==
    IF job.post_id \notin DOMAIN rows THEN rows
    ELSE [rows EXCEPT ![job.post_id].image_thumb_url =
                          JobThumbUrl(job.orig_url, at),
                      ![job.post_id].updated_at = at]

ThumbFrame == UNCHANGED <<post_tags, favorites, comments, comment_seq,
                          per_page, cdn_domain, req, user_reads, conns,
                          reports>>

\* upload_original_and_enqueue_thumb for an accepted image: the original's
\* URL is stored and committed, then the job is enqueued unless there is no
\* queue or the enqueue raises
UploadOriginalAndEnqueueThumb(post_id, enqueued) ==
    /\ now < MaxTime
    /\ post_id \in DOMAIN posts
    /\ LET url == Cdnize(OrigUrl(now + 1))
       IN  /\ posts' = [posts EXCEPT ![post_id].image_orig_url = url,
                                     ![post_id].updated_at = now + 1]
           /\ jobs' = IF enqueued
                      THEN Append(jobs, [post_id |-> post_id, orig_url |-> url,
                                         ran |-> FALSE])
                      ELSE jobs
    /\ now' = now + 1
    /\ last' = [op |-> "upload", uploads |-> last.uploads + 1,
                clean |-> last.clean /\ enqueued]
    /\ ThumbFrame

\* a worker runs job k: rq_generate_thumbnail returns or raises; the queue
\* drops the job when the run is acknowledged and hands it out again when
\* it is not (ran: the job has run to its end before)
RunThumbnailJob(k, done, ack) ==
    /\ k \in 1..Len(jobs)
    /\ ack \/ ~jobs[k].ran
    /\ posts' = IF done THEN ThumbnailWritten(posts, jobs[k], now) ELSE posts
    /\ jobs' = IF ack
               THEN [j \in 1..(Len(jobs) - 1) |->
                        IF j < k THEN jobs[j] ELSE jobs[j + 1]]
               ELSE [jobs EXCEPT ![k].ran = done]
    /\ last' = [op |-> "job", uploads |-> last.uploads,
                clean |-> last.clean /\ done]
    /\ UNCHANGED now
    /\ ThumbFrame

\* time passes
Tick ==
    /\ now < MaxTime
    /\ now' = now + 1
    /\ UNCHANGED <<posts, jobs, last>>
    /\ ThumbFrame

InitThumbs ==
    /\ posts = [p \in {1, 2} |-> PostRow(p, "public", "art", {})]
    /\ post_tags = {}
    /\ favorites = {}
    /\ per_page = DefaultPerPage
    /\ cdn_domain \in {"", "cdn.example"}
    /\ req = NoRequest
    /\ comments = {}
    /\ comment_seq = 0
    /\ last = [op |-> "none", uploads |-> 0, clean |-> TRUE]
    /\ now = 0
    /\ user_reads = <<>>
    /\ conns = <<>>
    /\ jobs = <<>>
    /\ reports = <<>>

UploadStep == \E enqueued \in BOOLEAN : UploadOriginalAndEnqueueThumb(1, enqueued)

RunThumbnailJobStep ==
    \E k \in 1..Len(jobs), done, ack \in BOOLEAN : RunThumbnailJob(k, done, ack)

\* C24: a second run of a thumbnail job, after any delay, leaves the posts
\* as they are, and a run changes no post but the job's own.
C24_ThumbnailJobIdempotent ==
    [][\A k \in 1..Len(jobs) :
          (last'.op = "job" /\ jobs[k].ran
           /\ jobs' = [j \in 1..(Len(jobs) - 1) |->
                          IF j < k THEN jobs[j] ELSE jobs[j + 1]])
             => posts' = posts]_vars

\* the part of C24 about the rows a run writes
C24_JobWritesItsPostOnly ==
    [][last'.op = "job"
          => \A p \in DOMAIN posts : posts'[p] # posts[p] =>
                \E k \in 1..Len(jobs) : jobs[k].post_id = p]_vars

\* C27: after more than one upload for the post, all of them enqueued, and
\* with every job run to its end, the post's thumbnail is the one made from
\* the original the post now has.
C27_ThumbnailOfCurrentOriginal ==
    (last.uploads > 1 /\ last.clean /\ jobs = <<>>)
        => /\ posts[1].image_thumb_url # NoUrl
           /\ posts[1].image_thumb_url.key[2] = posts[1].image_orig_url.key[2]

(***************************************************************************)
(* The surfaces that show single posts or posts of one user:               *)
(* views_posts.post_detail, user_profile, my_favorites, export_post_pdf    *)
(* and views_api.api_posts, api_post_detail.  A surface is the set of the  *)
(* ids of the posts its response shows.                                    *)
(***************************************************************************)
Callers == Usernames \cup {"anonymous"}

\* current_user.is_authenticated and current_user.is_staff
CallerIsStaff(caller) == caller # "anonymous" /\ IsStaff(caller)

\* 404 without a row, and 404 when "st and (not is_mod) and st[0] != 'public'"
PostDetail(caller, post_id) ==
    IF post_id \notin DOMAIN posts THEN {}
    ELSE IF ~CallerIsStaff(caller) /\ posts[post_id].status # "public" THEN {}
    ELSE {post_id}

\* SELECT * FROM posts WHERE author=%s ORDER BY created_at DESC
UserProfileAnyStatus(caller, username) ==
    {p \in DOMAIN posts : posts[p].author = username}

\* SELECT * FROM posts WHERE author=%s [AND status='public'] ORDER BY ...
UserProfile(caller, username) ==
    {p \in DOMAIN posts :
        /\ posts[p].author = username
        /\ CallerIsStaff(caller) \/ posts[p].status = "public"}

\* SELECT p.* FROM favorites f JOIN posts p ON p.id=f.post_id
\*  WHERE f.user_id=%s [AND p.status='public'], behind login_required
MyFavorites(caller) ==
    IF caller = "anonymous" THEN {}
    ELSE {p \in DOMAIN posts :
            /\ \E f \in favorites : f.user_id = caller /\ f.post_id = p
            /\ CallerIsStaff(caller) \/ posts[p].status = "public"}

\* SELECT ... FROM posts WHERE id=%s [AND status='public'], 404 without a row
ExportPostPdf(caller, post_id) ==
    {p \in DOMAIN posts :
        /\ p = post_id
        /\ CallerIsStaff(caller) \/ posts[p].status = "public"}

\* SELECT ... FROM posts WHERE status='public' [AND search_vec @@ ...]
\*  ORDER BY created_at DESC LIMIT %s OFFSET %s: the rows the keyword, the
\* limit and the offset choose from
ApiPosts == {p \in DOMAIN posts : posts[p].status = "public"}

\* "if not r or r[11] != 'public'" is answered with 404
ApiPostDetail(post_id) ==
    IF post_id \notin DOMAIN posts \/ posts[post_id].status # "public"
    THEN {} ELSE {post_id}

SurfaceNames == {"post_detail", "user_profile", "my_favorites",
                 "export_post_pdf", "api_posts", "api_post_detail"}

\* one GET of one of the surfaces
ReadSurface(caller, surface, post_id, username) ==
    /\ last' = [op |-> surface, caller |-> caller,
                returned |->
                   IF surface = "post_detail" THEN PostDetail(caller, post_id)
                   ELSE IF surface = "user_profile"
                        THEN UserProfile(caller, username)
                   ELSE IF surface = "my_favorites" THEN MyFavorites(caller)
                   ELSE IF surface = "export_post_pdf"
                        THEN ExportPostPdf(caller, post_id)
                   ELSE IF surface = "api_posts" THEN ApiPosts
                   ELSE ApiPostDetail(post_id)]
    /\ UNCHANGED <<posts, post_tags, favorites, comments, comment_seq,
                   per_page, cdn_domain, req, now, user_reads, conns, jobs,
                   reports>>

\* the surface run: every post is public at first and is a favorite of its
\* author and of the moderator; staff moderates, everybody reads
InitSurfaces ==
    /\ posts = [p \in PostIds |-> PostRow(p, "public", "art", {})]
    /\ post_tags = {}
    /\ favorites = {[user_id |-> u, post_id |-> p, created_at |-> 0] :
                      u \in {"alice", "bob", "carol"}, p \in PostIds}
    /\ per_page = DefaultPerPage
    /\ cdn_domain = ""
    /\ req = NoRequest
    /\ comments = {}
    /\ comment_seq = 0
    /\ last = [op |-> "none"]
    /\ now = 0
    /\ user_reads = <<>>
    /\ conns = <<>>
    /\ jobs = <<>>
    /\ reports = <<>>

ReadSurfaceStep ==
    \E caller \in Callers, surface \in SurfaceNames,
       post_id \in 1..(NumPosts + 1), username \in {"alice", "bob"} :
        ReadSurface(caller, surface, post_id, username)

\* C26: whatever moderation went before, a response of one of the six
\* surfaces to a caller who is not staff shows public posts only.
C26_NonPublicHiddenFromNonStaff ==
    (last.op \in SurfaceNames /\ ~CallerIsStaff(last.caller))
        => \A p \in last.returned :
              p \in DOMAIN posts /\ posts[p].status = "public"

\* alice asks for her own profile after her post was hidden and gets
\* nothing, while the other author's post is still public
C26_Witness ==
    /\ last.op = "user_profile" /\ last.caller = "alice"
    /\ last.returned = {}
    /\ posts[1].status = "hidden"
    /\ \E p \in DOMAIN posts : posts[p].status = "public"

(***************************************************************************)
(* views_notify.notify_mark_read, statement by statement, for requests of  *)
(* one user on connections of their own.  The handler reads the clock      *)
(* before it opens its connection; its INSERT ... ON CONFLICT DO NOTHING   *)
(* and its UPDATE lock the user's row until the commit, so a second        *)
(* request waits there for the first to end.                               *)
(***************************************************************************)
IdleMarkRead == [pc |-> "idle", typ |-> "all", at |-> 0]

MarkReadFrame == UNCHANGED <<posts, post_tags, favorites, comments,
                             comment_seq, per_page, cdn_domain, req, last,
                             jobs, reports>>

\* typ = request.form.get("type"); now = datetime.utcnow()
BeginMarkRead(r, typ) ==
    /\ conns[r].pc = "idle"
    /\ conns' = [conns EXCEPT ![r] = [pc |-> "update", typ |-> typ, at |-> now]]
    /\ UNCHANGED <<user_reads, now>>
    /\ MarkReadFrame

\* the INSERT and the UPDATE, once no other connection holds the row
UpdateReads(r) ==
    /\ conns[r].pc = "update"
    /\ \A o \in RequestIds \ {r} : conns[o].pc # "commit"
    /\ conns' = [conns EXCEPT ![r].pc = "commit"]
    /\ UNCHANGED <<user_reads, now>>
    /\ MarkReadFrame

\* conn.commit(): the row as the UPDATE left it becomes the stored row
CommitMarkRead(r, user) ==
    /\ conns[r].pc = "commit"
    /\ user_reads' = [u \in DOMAIN user_reads \cup {user} |->
                        IF u = user
                        THEN MarkedRow(GetNotifyLastReads(user), conns[r].typ,
                                       conns[r].at)
                        ELSE user_reads[u]]
    /\ conns' = [conns EXCEPT ![r] = IdleMarkRead]
    /\ UNCHANGED now
    /\ MarkReadFrame

InitMarkRead ==
    /\ posts = [p \in {1} |-> PostRow(1, "public", "art", {})]
    /\ post_tags = {}
    /\ favorites = {}
    /\ per_page = DefaultPerPage
    /\ cdn_domain = ""
    /\ req = NoRequest
    /\ comments = {}
    /\ comment_seq = 0
    /\ last = [op |-> "none"]
    /\ now = 0
    /\ user_reads = <<>>
    /\ conns = [r \in RequestIds |-> IdleMarkRead]
    /\ jobs = <<>>
    /\ reports = <<>>

BeginMarkReadStep ==
    \E r \in RequestIds, typ \in {"replies_to_me", "all"} : BeginMarkRead(r, typ)

\* C28: no step moves a stored watermark of the user backwards.
C28_WatermarksNeverMoveBack ==
    [][\A cat \in Categories :
          GetNotifyLastReads("alice")'[cat] >= GetNotifyLastReads("alice")[cat]]_vars

(***************************************************************************)
(* The pages of the listing over a store in which posts tie on the sort    *)
(* keys: no post but post 1 was ever updated, two posts have the same      *)
(* ai_name, and no post or only post 1 has a favorite.  created_at, the    *)
(* last key of every ORDER BY of the listing, differs from post to post.   *)
(***************************************************************************)
InitPages ==
    /\ \E status1 \in {"public", "hidden"} :
          posts = [p \in 1..(NumPosts + 1) |->
                     PostRow(p, IF p = 1 THEN status1 ELSE "public", "art",
                             {"robot"})]
    /\ post_tags = {}
    /\ favorites \in {{}, {[user_id |-> "alice", post_id |-> 1, created_at |-> 0]}}
    /\ per_page \in 1..MaxPerPage
    /\ cdn_domain = ""
    /\ req \in SortRequests
    /\ comments = {}
    /\ comment_seq = 0
    /\ last = [op |-> "none"]
    /\ now = 0
    /\ user_reads = <<>>
    /\ conns = <<>>
    /\ jobs = <<>>
    /\ reports = <<>>

\* position k of the pages put one after the other, for every k that
\* holds post p
Occurrences(rows, p) == {k \in 1..Len(rows) : rows[k] = p}

\* C29: the pages of the listing, one after the other, hold every post
\* that matches the filter exactly once and no other post, for every sort
\* key.
C29_PagesPartitionTheMatches ==
    last.op = "show_posts"
        => LET rows == PagesFrom(req, 1)
           IN  /\ \A p \in ExpectedPosts(req) :
                     Cardinality(Occurrences(rows, p)) = 1
               /\ Range(rows) \subseteq ExpectedPosts(req)

\* C29 for the requests whose page query executes: no keyword, and a sort
\* key other than relevance
C29_PagesOfExecutingQueries ==
    (last.op = "show_posts" /\ req.keyword = ""
        /\ OrderByOf(req.sort) # "relevance")
        => LET rows == PagesFrom(req, 1)
           IN  /\ \A p \in ExpectedPosts(req) :
                     Cardinality(Occurrences(rows, p)) = 1
               /\ Range(rows) \subseteq ExpectedPosts(req)

NextComments == AddCommentStep

SpecComments == InitComments /\ [][NextComments]_vars

NextListing == ShowPosts \/ ExportPostsCsv \/ ExportPostsJson

SpecListing == InitListing /\ [][NextListing]_vars

NextNotify == CommentEvent \/ FavoriteEvent \/ MarkReadEvent \/ NotifyCountsStep

SpecNotify == InitNotify /\ [][NextNotify]_vars

NextToggle == ToggleStep

SpecToggle == InitToggle /\ [][NextToggle]_vars

NextFavorites ==
    \/ BeginToggleStep
    \/ \E r \in RequestIds :
          \/ SelectFavorite(r) \/ DeleteFavorite(r) \/ SelectStatus(r)
          \/ InsertFavorite(r) \/ CommitToggle(r)

SpecFavorites == InitFavorites /\ [][NextFavorites]_vars

NextModerate == EditPostStep \/ DeletePostStep \/ ModeratePostStep

SpecModerate == InitModerate /\ [][NextModerate]_vars

NextDelete == ThreadStep \/ DeleteCommentStep \/ AdminDeletePostStep

SpecDelete == InitDelete /\ [][NextDelete]_vars

NextCards == ShowPosts

SpecCards == InitCards /\ [][NextCards]_vars

NextWrites ==
    \/ BeginNewPostStep \/ BeginEditPostStep \/ BeginAddCommentStep
    \/ InsertPost(1) \/ UpdatePost(1) \/ DeleteLinks(1) \/ InsertLink(1)
    \/ SelectParent(1) \/ InsertComment(1) \/ UpdatePath(1)
    \/ Commit(1) \/ Raise(1) \/ UploadAndFinish(1) \/ RqGenerateThumbnail

SpecWrites == InitWrites /\ [][NextWrites]_vars

NextConnections ==
    \/ AcquireStep
    \/ \E r \in RequestIds :
          \/ ExecuteStatement(r) \/ StatementRaises(r) \/ CloseConnection(r)

SpecConnections == InitConnections /\ [][NextConnections]_vars

NextReports ==
    \/ BeginReportStep
    \/ \E r \in RequestIds :
          \/ InsertReport(r) \/ CommitReport(r) \/ ReportFails(r)

SpecReports == InitReports /\ [][NextReports]_vars

NextThread == ThreadCommentStep \/ ThreadDeleteStep \/ ThreadModerateStep

SpecThread == InitThread /\ [][NextThread]_vars

NextThumbs == UploadStep \/ RunThumbnailJobStep \/ Tick

SpecThumbs == InitThumbs /\ [][NextThumbs]_vars

NextSurfaces == ModeratePostStep \/ ReadSurfaceStep

SpecSurfaces == InitSurfaces /\ [][NextSurfaces]_vars

NextMarkRead ==
    \/ BeginMarkReadStep
    \/ \E r \in RequestIds : UpdateReads(r) \/ CommitMarkRead(r, "alice")
    \/ Tick

SpecMarkRead == InitMarkRead /\ [][NextMarkRead]_vars

NextPages == ShowPosts

SpecPages == InitPages /\ [][NextPages]_vars

====
